---- MODULE Spec2Model ----
(***************************************************************************)
(* Model of the diagram compiler of src/visuals/compiler.py:               *)
(* compile_visual_spec, _compile_objects, _normalize_world2d and the       *)
(* geometry passes they run (scale, normalize, compress, snap, auto-fit).  *)
(*                                                                         *)
(* Numbers.  The code works on Python floats; the model works on a fixed   *)
(* grid of Unit steps per scene unit, so 0.6 is 120, 3.15 is 630 and 0.04  *)
(* is 8.  Inputs are drawn from multiples of half a scene unit and the     *)
(* surfaces are axis-aligned or 3-4-5 segments, which keeps projections,   *)
(* normals and offsets exact on the grid.  Square roots of non-squares     *)
(* (the block diagonal of _update_bounds_box) are floored to the grid.     *)
(* The 1e-6 and 1e-3 tolerances of the code are below one grid step and    *)
(* become comparisons with 0.                                              *)
(*                                                                         *)
(* Dicts are functions from field names to values; a missing key is a      *)
(* missing element of the domain.  A value float() rejects is Bad.         *)
(***************************************************************************)
EXTENDS Integers, Sequences, FiniteSets, TLC

\* pc    position in compile_visual_spec / _normalize_world2d
\* arg0  the spec as the caller passed it (kept for comparison)
\* arg   the caller's spec object as it is now (the passes may write through it)
\* out   the dict `out` of _normalize_world2d; the returned value once pc = "done"
\* kids  raw_children, then children
\* env   the locals of _normalize_world2d
\* pre   the children handed to _snap_blocks_to_planes
\* src   for each of kids, the index of the input child it was normalized from
\* exc   the exception that left the call, "" when none
VARIABLES pc, arg0, arg, out, kids, env, pre, src, exc, hist

vars == <<pc, arg0, arg, out, kids, env, pre, src, exc, hist>>

-----------------------------------------------------------------------------
(* Bounds of the model *)

MaxChildren == 2
MaxObjects == 3
MaxCompiles == 2

-----------------------------------------------------------------------------
(* Fixed-point grid and the program's constants on it *)

Unit == 2 * 100
Half == Unit \div 2
Bad == 0 - (9999 * Unit)

DEFAULT_X_RANGE == <<0 - 6 * Unit, 6 * Unit>>
DEFAULT_Y_RANGE == <<0 - (7 * Unit) \div 2, (7 * Unit) \div 2>>
DEFAULT_PLANE_LENGTH == (9 * Unit) \div 2
DEFAULT_BASE == <<0 - (9 * Unit) \div 2, 0 - (12 * Unit) \div 5>>
DEFAULT_FORCE_LEN == (11 * Unit) \div 10
BLOCK_WIDTH == (8 * Unit) \div 10
BLOCK_HEIGHT == (5 * Unit) \div 10
BLOCK_MARGIN == 0 * Unit
FORCE_FONT_SIZE == 14 * Unit
FORCE_LABEL_MAX == 16 * Unit
RANGE_PADDING == (6 * Unit) \div 10
\* ratios are kept as <<numerator, denominator>>
MIN_SPAN_RATIO == <<45, 100>>
HORIZ_RATIO_CAP == 3
RANGE_OVERSIZE == <<13, 10>>
SNAP_THRESHOLD == <<11, 10>>
SURFACE_COLOR == "#ffffff"
BLOCK_COLOR == "#ffffff"
SurfaceTypes == {"inclined_plane", "rough_surface", "smooth_surface", "horizontal_surface"}
SCALE_KEYS == {"width", "height", "radius", "length", "size", "thickness",
               "corner_radius", "tip_length", "edge_height", "block_offset",
               "block_w", "block_h", "entry_length", "exit_length", "amplitude",
               "dash", "gap", "hatch_length", "top_hatch_length",
               "edge_hatch_length", "line_hatch_length", "r"}

-----------------------------------------------------------------------------
(* Arithmetic helpers *)

Abs(x) == IF x < 0 THEN 0 - x ELSE x
Min2(a, b) == IF a < b THEN a ELSE b
Max2(a, b) == IF a > b THEN a ELSE b
Sgn(x) == IF x < 0 THEN 0 - 1 ELSE IF x > 0 THEN 1 ELSE 0
\* division rounding to the nearest grid step (exact whenever b divides a)
RDiv(a, b) == Sgn(a) * Sgn(b) * ((2 * Abs(a) + Abs(b)) \div (2 * Abs(b)))

RECURSIVE SqrtSearch(_, _, _)
SqrtSearch(n, lo, hi) ==
    IF lo >= hi THEN lo
    ELSE LET mid == (lo + hi + 1) \div 2
         IN IF mid * mid <= n THEN SqrtSearch(n, mid, hi) ELSE SqrtSearch(n, lo, mid - 1)
\* floor of the square root
ISqrt(n) == SqrtSearch(n, 0, 40000)

-----------------------------------------------------------------------------
(* Dict helpers *)

Has(d, k) == k \in DOMAIN d
Get(d, k, dflt) == IF k \in DOMAIN d THEN d[k] ELSE dflt
Put(d, k, v) == (k :> v) @@ d
Del(d, k) == [x \in (DOMAIN d) \ {k} |-> d[x]]
Empty == [x \in {} |-> 0]
\* isinstance(v, (list, tuple)) and len(v) >= 2 ; non-list values are encoded as <<>>
IsPair(v) == Len(v) >= 2
\* float(v[0]), float(v[1]) succeed
NumPair(v) == Len(v) >= 2 /\ v[1] # Bad /\ v[2] # Bad
TypeOf(n) == Get(n, "type", "")
IdOf(n) == Get(n, "id", "")

-----------------------------------------------------------------------------
(* Bounds accumulator: <<>> is the empty accumulator [None]*4, otherwise
   <<min_x, max_x, min_y, max_y>> *)

init_bounds == <<>>

update_bounds(b, x, y) ==
    IF b = <<>> THEN <<x, x, y, y>>
    ELSE <<Min2(b[1], x), Max2(b[2], x), Min2(b[3], y), Max2(b[4], y)>>

SetMin(S) == CHOOSE x \in S : \A y \in S : x <= y
SetMax(S) == CHOOSE x \in S : \A y \in S : x >= y

\* the accumulator after _update_bounds on every point of the set P
update_bounds_all(b, P) ==
    IF P = {} THEN b
    ELSE LET xs == {p[1] : p \in P} \cup (IF b = <<>> THEN {} ELSE {b[1], b[2]})
             ys == {p[2] : p \in P} \cup (IF b = <<>> THEN {} ELSE {b[3], b[4]})
         IN <<SetMin(xs), SetMax(xs), SetMin(ys), SetMax(ys)>>

\* the two corners _update_bounds_box adds: centre plus and minus half the diagonal
box_points(cx, cy, width, height) ==
    LET diag == ISqrt(width * width + height * height) \div 2
    IN {<<cx - diag, cy - diag>>, <<cx + diag, cy + diag>>}

update_bounds_box(b, cx, cy, width, height, angle_deg) ==
    update_bounds_all(b, box_points(cx, cy, width, height))

\* faulty variant of clamp_range: a range narrower than the default is not shifted
clamp_range_unshifted(min_v, max_v, default_range) ==
    IF max_v - min_v >= default_range[2] - default_range[1] THEN default_range
    ELSE <<min_v, max_v>>

clamp_range(min_v, max_v, default_range) ==
    LET default_min == default_range[1]
        default_max == default_range[2]
        default_span == default_max - default_min
        span == max_v - min_v
        shift1 == IF min_v < default_min THEN default_min - min_v ELSE 0
        lo1 == min_v + shift1
        hi1 == max_v + shift1
        shift2 == IF hi1 > default_max THEN hi1 - default_max ELSE 0
        lo2 == lo1 - shift2
        hi2 == hi1 - shift2
    IN IF span >= default_span THEN default_range
       ELSE IF lo2 < default_min \/ hi2 > default_max THEN default_range
       ELSE <<lo2, hi2>>

\* faulty variant of auto_axis: the padded span is not raised to the minimum span
auto_axis_unraised(lo, hi, default_range) ==
    clamp_range(lo - RANGE_PADDING, hi + RANGE_PADDING, default_range)

\* one axis of _auto_ranges: pad, raise to the minimum span, clamp
auto_axis(lo, hi, default_range) ==
    LET min_v == lo - RANGE_PADDING
        max_v == hi + RANGE_PADDING
        min_span == ((default_range[2] - default_range[1]) * MIN_SPAN_RATIO[1]) \div MIN_SPAN_RATIO[2]
        center2 == min_v + max_v
        grown == (max_v - min_v) < min_span
        lo1 == IF grown THEN (center2 - min_span) \div 2 ELSE min_v
        hi1 == IF grown THEN (center2 + min_span) \div 2 ELSE max_v
    IN clamp_range(lo1, hi1, default_range)

\* <<x_range, y_range>>
auto_ranges(b) ==
    IF b = <<>> THEN <<DEFAULT_X_RANGE, DEFAULT_Y_RANGE>>
    ELSE <<auto_axis(b[1], b[2], DEFAULT_X_RANGE), auto_axis(b[3], b[4], DEFAULT_Y_RANGE)>>

range_is_oversized(raw, auto_range) ==
    IF ~IsPair(raw) THEN TRUE
    ELSE IF raw[1] = Bad \/ raw[2] = Bad THEN TRUE
    ELSE LET span == raw[2] - raw[1]
             auto_span == auto_range[2] - auto_range[1]
         IN IF auto_span <= 0 THEN FALSE
            ELSE span * RANGE_OVERSIZE[2] > auto_span * RANGE_OVERSIZE[1]

-----------------------------------------------------------------------------
(* Strings.  TLC strings are atomic, so the substring tests the code makes on
   ids and texts are tables over the ids and texts the model uses. *)

\* the words of _looks_like_block_id and _infer_surface_type found in an id
IdWords(id) ==
    CASE id = "ground" -> {"ground"}
      [] id = "slope" -> {"slope"}
      [] id = "block" -> {"block"}
      [] id = "block_2" -> {"block"}
      [] id = "path_slope" -> {"path", "slope"}
      [] OTHER -> {}

\* id.startswith("label_")
IdIsLabel(id) == id \in {"label_x"}

\* text.startswith(("start", "bottom", "stop"))
TextIsMarker(text) == text \in {"start", "bottom", "stop here"}

\* hex colours of the model whose brightness is below 0.35
DimHex == {"#111", "#202020"}

normalize_color(value, fallback) ==
    IF value = "" THEN fallback
    ELSE IF value \in {"#000", "#000000", "black"} THEN fallback
    ELSE IF value \in DimHex THEN fallback
    ELSE value

\* faulty variant of to_float: the declared value is not read
to_float_default(d, k, dflt) == dflt

\* _to_float(d.get(k, dflt), dflt)
to_float(d, k, dflt) == IF Has(d, k) /\ d[k] # Bad THEN d[k] ELSE dflt

looks_like_block_id(node_id) ==
    IF node_id = "" THEN FALSE
    ELSE "block" \in IdWords(node_id) /\ "ball" \notin IdWords(node_id)

infer_surface_type(node, node_id) ==
    LET w == IdWords(node_id)
    IN IF node_id = "" \/ "path" \in w \/ IdIsLabel(node_id) THEN ""
       ELSE IF "inclined" \in w \/ "slope" \in w THEN "inclined_plane"
       ELSE IF "rough" \in w THEN "rough_surface"
       ELSE IF "smooth" \in w THEN "smooth_surface"
       ELSE IF "horizontal" \in w THEN "horizontal_surface"
       ELSE IF "ground" \in w \/ "surface" \in w \/ "floor" \in w THEN
            IF Has(node, "start") /\ Has(node, "end") /\ NumPair(node["start"]) /\ NumPair(node["end"])
               /\ Abs(node["start"][2] - node["end"][2]) <= 0
            THEN "horizontal_surface" ELSE "rough_surface"
       ELSE ""

-----------------------------------------------------------------------------
(* _normalize_node.  The result is <<>> for None and <<node>> otherwise. *)

\* the style block: style is popped and its entries copied to absent fields
merge_style(node) ==
    IF ~Has(node, "style") THEN node
    ELSE LET st == node["style"]
             n0 == Del(node, "style")
             n1 == IF Has(st, "color") /\ ~Has(n0, "color") THEN Put(n0, "color", st["color"]) ELSE n0
             n2 == IF Has(st, "stroke") /\ ~Has(n1, "color") THEN Put(n1, "color", st["stroke"]) ELSE n1
             n3 == IF Has(st, "width") /\ ~Has(n2, "stroke_width") THEN Put(n2, "stroke_width", st["width"]) ELSE n2
             n4 == IF Has(st, "font_size") /\ ~Has(n3, "font_size") THEN Put(n3, "font_size", st["font_size"]) ELSE n3
             n5 == IF Has(st, "label") /\ ~Has(n4, "label") THEN Put(n4, "label", st["label"]) ELSE n4
             n6 == IF Has(st, "label_offset") /\ ~Has(n5, "label_offset") THEN Put(n5, "label_offset", st["label_offset"]) ELSE n5
         IN n6

copy_angle(node) ==
    IF Has(node, "angle") /\ ~Has(node, "angle_deg") THEN Put(node, "angle_deg", node["angle"]) ELSE node

\* lines 488-497
normalize_line(node, node_id) ==
    IF TypeOf(node) \notin {"line", "arrow", "force_arrow"} THEN node
    ELSE LET n1 == IF ~Has(node, "start") /\ Has(node, "p1") THEN Put(node, "start", node["p1"]) ELSE node
             n2 == IF ~Has(n1, "end") /\ Has(n1, "p2") THEN Put(n1, "end", n1["p2"]) ELSE n1
             inferred == infer_surface_type(n2, node_id)
         IN IF TypeOf(n2) = "line" /\ inferred # "" THEN Put(n2, "type", inferred) ELSE n2

\* lines 499-515
normalize_circle(node, node_id) ==
    IF TypeOf(node) # "circle" THEN node
    ELSE LET n1 == IF ~Has(node, "center") /\ Has(node, "pos") THEN Put(node, "center", node["pos"]) ELSE node
             n2 == IF ~Has(n1, "radius") /\ Has(n1, "r") THEN Put(n1, "radius", n1["r"]) ELSE n1
         IN IF ~looks_like_block_id(node_id) THEN n2
            ELSE LET n3 == Put(n2, "type", "block")
                     n4 == IF ~Has(n3, "pos") THEN Put(n3, "pos", Get(n3, "center", <<>>)) ELSE n3
                     radius == Get(n4, "radius", Get(n4, "r", BLOCK_WIDTH \div 2))
                 IN IF ~Has(n4, "width") /\ ~Has(n4, "height") /\ radius # Bad
                    THEN Put(Put(n4, "width", radius * 2), "height", radius * 2)
                    ELSE n4

\* lines 517-522
normalize_surface_points(node) ==
    IF TypeOf(node) \in SurfaceTypes /\ ~Has(node, "start") /\ ~Has(node, "end")
       /\ Has(node, "points") /\ Len(node["points"]) >= 2
    THEN Put(Put(node, "start", node["points"][1]), "end", node["points"][Len(node["points"])])
    ELSE node

\* lines 541-566
normalize_kind(node) ==
    LET ctype == TypeOf(node)
    IN IF ctype \in SurfaceTypes THEN
            LET n1 == Put(node, "color", normalize_color(Get(node, "color", ""), SURFACE_COLOR))
            IN IF ~Has(n1, "stroke_width") THEN Put(n1, "stroke_width", (26 * Unit) \div 10) ELSE n1
       ELSE IF ctype = "block" THEN
            LET n1 == IF ~Has(node, "fill_opacity") THEN Put(node, "fill_opacity", 0) ELSE node
                n2 == Put(n1, "color", normalize_color(Get(n1, "color", ""), BLOCK_COLOR))
                width == to_float(n2, "width", BLOCK_WIDTH)
                height == to_float(n2, "height", BLOCK_HEIGHT)
                size == Max2(width, height)
                n3 == Put(Put(n2, "width", size), "height", size)
            IN IF ~Has(n3, "stroke_width") THEN Put(n3, "stroke_width", (28 * Unit) \div 10) ELSE n3
       ELSE IF ctype = "force_arrow" THEN
            LET n1 == IF ~Has(node, "label_pos") THEN Put(node, "label_pos", "tip") ELSE node
                n2 == IF ~Has(n1, "label_offset_ratio") THEN Put(n1, "label_offset_ratio", 18) ELSE n1
                n3 == IF ~Has(n2, "label_back_ratio") THEN Put(n2, "label_back_ratio", 20) ELSE n2
            IN IF ~Has(n3, "font_size") THEN Put(n3, "font_size", FORCE_FONT_SIZE)
               ELSE IF n3["font_size"] = Bad THEN Put(n3, "font_size", FORCE_FONT_SIZE)
               ELSE Put(n3, "font_size", Min2(n3["font_size"], FORCE_LABEL_MAX))
       ELSE node

RECURSIVE normalize_node(_)
RECURSIVE normalize_all(_)

\* the loops of lines 450-455 and 532-537 (children that are not dicts are not modelled)
normalize_all(nodes) ==
    IF nodes = <<>> THEN <<>>
    ELSE normalize_node(Head(nodes)) \o normalize_all(Tail(nodes))

normalize_node(node) ==
    LET node_id == IdOf(node)
        n1 == copy_angle(merge_style(node))
        n2 == normalize_line(n1, node_id)
        n3 == normalize_circle(n2, node_id)
        n4 == normalize_surface_points(n3)
        ctype == TypeOf(n4)
    IN IF ctype = "text" /\ (IdIsLabel(node_id) \/ TextIsMarker(Get(n4, "text", ""))) THEN <<>>
       ELSE IF ctype = "group" THEN <<Put(n4, "children", normalize_all(Get(n4, "children", <<>>)))>>
       ELSE <<normalize_kind(n4)>>

-----------------------------------------------------------------------------
(* BoundsCollector: _collect_bounds_from_node *)

PointKeys == {"pos", "start", "end", "center", "a", "b", "origin", "p1", "p2"}
SegPointKeys == {"a", "b", "start", "end", "center"}

\* the points _update_bounds_from_point accepts among the fields keys of d
points_of_keys(d, keys) ==
    {<<d[k][1], d[k][2]>> : k \in {kk \in keys \cap DOMAIN d : NumPair(d[kk])}}

points_of_list(pts) ==
    {<<pts[i][1], pts[i][2]>> : i \in {ii \in 1..Len(pts) : NumPair(pts[ii])}}

\* lines 672-681 and 664-671: centre plus and minus radius
points_of_disc(center, radius) ==
    IF NumPair(center) /\ radius # Bad
    THEN {<<center[1] - radius, center[2] - radius>>, <<center[1] + radius, center[2] + radius>>}
    ELSE {}

\* lines 656-671
points_of_segment(seg) ==
    points_of_keys(seg, SegPointKeys)
    \cup points_of_list(Get(seg, "points", <<>>))
    \cup (IF Has(seg, "center") /\ IsPair(seg["center"]) /\ Has(seg, "radius")
          THEN points_of_disc(seg["center"], seg["radius"]) ELSE {})

\* lines 647-681: the points one node adds, its children aside
node_points(node) ==
    LET segs == Get(node, "segments", <<>>)
        \* node.get("center") or node.get("pos")
        center == IF Has(node, "center") /\ node["center"] # <<>> THEN node["center"] ELSE Get(node, "pos", <<>>)
        hasRadius == Has(node, "radius") \/ Has(node, "r")
        radius == Get(node, "radius", Get(node, "r", Bad))
    IN points_of_keys(node, PointKeys)
       \cup points_of_list(Get(node, "points", <<>>))
       \cup UNION {points_of_segment(segs[i]) : i \in 1..Len(segs)}
       \cup (IF IsPair(center) /\ hasRadius THEN points_of_disc(center, radius) ELSE {})

\* the points of the nodes and of everything nested in them (lines 682-685)
RECURSIVE tree_points(_)
tree_points(nodes) ==
    UNION {node_points(nodes[i]) \cup tree_points(Get(nodes[i], "children", <<>>)) : i \in 1..Len(nodes)}

collect_bounds(nodes, b) == update_bounds_all(b, tree_points(nodes))

collect_bounds_from_node(node, b) == collect_bounds(<<node>>, b)

-----------------------------------------------------------------------------
(* UnitScaler.  u is the rational <<numerator, denominator>>; <<>> is None. *)

RECURSIVE Pow10(_)
Pow10(n) == IF n <= 0 THEN 1 ELSE 10 * Pow10(n - 1)

RECURSIVE log10_search(_, _, _)
log10_search(A, B, k) ==
    IF A < B THEN log10_search(10 * A, B, k - 1)
    ELSE IF A >= 10 * B THEN log10_search(A, 10 * B, k + 1)
    ELSE k

\* int(floor(log10(u))) for u > 0
floor_log10(u) == log10_search(u[1], u[2], 0)

quantize_u(u) ==
    IF u[1] <= 0 THEN u
    ELSE LET exp == floor_log10(u)
             A == u[1] * Pow10(0 - exp)
             B == u[2] * Pow10(exp)
             \* |c - base| up to the common factor 1/B
             D(c) == Abs(c * B - A)
             best == IF D(1) <= D(2) /\ D(1) <= D(5) /\ D(1) <= D(10) THEN 1
                     ELSE IF D(2) <= D(5) /\ D(2) <= D(10) THEN 2
                     ELSE IF D(5) <= D(10) THEN 5
                     ELSE 10
         IN <<best * Pow10(exp), Pow10(0 - exp)>>

\* 1e-6 scene units is one grid step divided by EpsDen
EpsDen == 5 * 1000

\* The ratio span/target where each is max(1e-6, v): class 2 when only the
\* target is at the 1e-6 floor, class 0 when only the span is, class 1 otherwise.
span_class(span, target) ==
    IF span > 0 /\ target > 0 THEN 1
    ELSE IF span > 0 THEN 2
    ELSE IF target > 0 THEN 0
    ELSE 1

span_ratio(span, target) ==
    IF span > 0 /\ target > 0 THEN <<span, target>>
    ELSE IF span > 0 THEN <<span * EpsDen, 1>>
    ELSE IF target > 0 THEN <<1, EpsDen * target>>
    ELSE <<1, 1>>

\* a/b >= c/d for two ratios of the same class
ratio_geq(r1, r2, class) ==
    IF class = 1 THEN r1[1] * r2[2] >= r2[1] * r1[2]
    ELSE IF class = 2 THEN r1[1] >= r2[1]
    ELSE r1[2] <= r2[2]

\* u = 1 / min(tx/sx, ty/sy) = max(sx/tx, sy/ty); scale <= 1e-9 needs a span
\* of 1000 target spans and is out of the model's reach
compute_auto_u(children, x_range, y_range) ==
    LET b == collect_bounds(children, init_bounds)
    IN IF b = <<>> THEN <<>>
       ELSE LET span_x == b[2] - b[1]
                span_y == b[4] - b[3]
                target_span_x == x_range[2] - x_range[1]
                target_span_y == y_range[2] - y_range[1]
                cx == span_class(span_x, target_span_x)
                cy == span_class(span_y, target_span_y)
                rx == span_ratio(span_x, target_span_x)
                ry == span_ratio(span_y, target_span_y)
            IN IF cx > cy THEN rx
               ELSE IF cy > cx THEN ry
               ELSE IF ratio_geq(rx, ry, cx) THEN rx ELSE ry

\* x * scale with scale = 1/u
scale_len(x, u) == RDiv(x * u[2], u[1])

\* faulty variant of scale_point: the origin is not added back
scale_point_about_zero(pt, u, origin) ==
    <<scale_len(pt[1] - origin[1], u), scale_len(pt[2] - origin[2], u)>>

scale_point(pt, u, origin) ==
    <<origin[1] + scale_len(pt[1] - origin[1], u), origin[2] + scale_len(pt[2] - origin[2], u)>>

scale_points(pts, u, origin) ==
    [i \in 1..Len(pts) |-> IF NumPair(pts[i]) THEN scale_point(pts[i], u, origin) ELSE pts[i]]

\* lines 819-844
scale_segment(seg, u, origin) ==
    [k \in DOMAIN seg |->
        IF k \in SegPointKeys THEN (IF NumPair(seg[k]) THEN scale_point(seg[k], u, origin) ELSE seg[k])
        ELSE IF k = "radius" THEN (IF seg[k] # Bad THEN scale_len(seg[k], u) ELSE seg[k])
        ELSE IF k = "points" THEN scale_points(seg[k], u, origin)
        ELSE seg[k]]

\* lines 791-863; the size-like fields of the model are scalars
RECURSIVE scale_node(_, _, _)
scale_node(node, u, origin) ==
    [k \in DOMAIN node |->
        IF k \in PointKeys THEN (IF NumPair(node[k]) THEN scale_point(node[k], u, origin) ELSE node[k])
        ELSE IF k = "points" THEN scale_points(node[k], u, origin)
        ELSE IF k = "segments" THEN [i \in 1..Len(node[k]) |-> scale_segment(node[k][i], u, origin)]
        ELSE IF k \in SCALE_KEYS THEN (IF node[k] # Bad THEN scale_len(node[k], u) ELSE node[k])
        ELSE IF k = "children" THEN [i \in 1..Len(node[k]) |-> scale_node(node[k][i], u, origin)]
        ELSE node[k]]

-----------------------------------------------------------------------------
(* SurfaceSnapper.  A plane is <<sx, sy, ex, ey, dx, dy, seg_len>>: the unit
   tangent (ux, uy) of the code is (dx, dy) / seg_len. *)

Truthy_unread(d, k) == FALSE

Truthy(d, k) == Has(d, k) /\ d[k] = TRUE

\* isinstance(start, list) and isinstance(end, list) and both have two entries
HasSegment(node) == Has(node, "start") /\ Has(node, "end") /\ IsPair(node["start"]) /\ IsPair(node["end"])

SegLen(a, b) == ISqrt((b[1] - a[1]) * (b[1] - a[1]) + (b[2] - a[2]) * (b[2] - a[2]))

\* float() of lines 720-721 raises ValueError
collect_planes_raises(children) ==
    \E i \in 1..Len(children) :
        /\ TypeOf(children[i]) \in SurfaceTypes
        /\ HasSegment(children[i])
        /\ ~(NumPair(children[i]["start"]) /\ NumPair(children[i]["end"]))

\* the plane of one child, <<>> when the child contributes none
plane_of(node) ==
    IF TypeOf(node) \notin SurfaceTypes \/ ~HasSegment(node) THEN <<>>
    ELSE LET s == node["start"]
             e == node["end"]
             seg_len == SegLen(s, e)
         IN IF seg_len <= 0 THEN <<>>
            ELSE <<s[1], s[2], e[1], e[2], e[1] - s[1], e[2] - s[2], seg_len>>

collect_planes(children) ==
    LET IsPlane(pl) == pl # <<>>
    IN SelectSeq([i \in 1..Len(children) |-> plane_of(children[i])], IsPlane)

\* faulty variant of project_on_plane: t is not clamped to the segment
project_on_plane_unclamped(px, py, pl) ==
    LET t == RDiv((px - pl[1]) * pl[5] + (py - pl[2]) * pl[6], pl[7])
        proj_x == pl[1] + RDiv(pl[5] * t, pl[7])
        proj_y == pl[2] + RDiv(pl[6] * t, pl[7])
        nx == IF pl[5] < 0 THEN pl[6] ELSE 0 - pl[6]
        ny == IF pl[5] < 0 THEN 0 - pl[5] ELSE pl[5]
    IN <<Abs(RDiv((px - proj_x) * nx + (py - proj_y) * ny, pl[7])), proj_x, proj_y, nx, ny, pl[5], pl[6], pl[7]>>

\* one iteration of the loop of _nearest_plane:
\* <<dist_abs, proj_x, proj_y, nx * seg_len, ny * seg_len, dx, dy, seg_len>>
project_on_plane(px, py, pl) ==
    LET dx == pl[5]
        dy == pl[6]
        seg_len == pl[7]
        t0 == RDiv((px - pl[1]) * dx + (py - pl[2]) * dy, seg_len)
        t == Max2(0, Min2(seg_len, t0))
        proj_x == pl[1] + RDiv(dx * t, seg_len)
        proj_y == pl[2] + RDiv(dy * t, seg_len)
        \* nx, ny = -uy, ux, flipped when ny < 0
        nx == IF dx < 0 THEN dy ELSE 0 - dy
        ny == IF dx < 0 THEN 0 - dx ELSE dx
        dist == RDiv((px - proj_x) * nx + (py - proj_y) * ny, seg_len)
    IN <<Abs(dist), proj_x, proj_y, nx, ny, dx, dy, seg_len>>

\* the first plane of least distance (the loop replaces best only on a
\* strictly smaller distance); <<>> is None
nearest_plane(px, py, planes) ==
    IF planes = <<>> THEN <<>>
    ELSE LET cand == [i \in 1..Len(planes) |-> project_on_plane(px, py, planes[i])]
             bi == CHOOSE i \in 1..Len(planes) :
                      /\ \A j \in 1..Len(planes) : cand[i][1] <= cand[j][1]
                      /\ \A j \in 1..(i - 1) : cand[j][1] > cand[i][1]
         IN cand[bi]

\* atan2(uy, ux) * 180 / pi in hundredths of a degree, for the directions of
\* the model's surfaces (axis-aligned and 3-4-5)
atan2_deg(dy, dx) ==
    CASE dy = 0 /\ dx > 0 -> 0
      [] dy = 0 /\ dx < 0 -> 18000
      [] dx = 0 /\ dy > 0 -> 9000
      [] dx = 0 /\ dy < 0 -> 0 - 9000
      [] dx > 0 /\ dy > 0 /\ 4 * dy = 3 * dx -> 3687
      [] dx > 0 /\ dy > 0 /\ 3 * dy = 4 * dx -> 5313
      [] dx < 0 /\ dy < 0 /\ 4 * dy = 3 * dx -> 0 - 14313
      [] dx < 0 /\ dy < 0 /\ 3 * dy = 4 * dx -> 0 - 12687
      [] dx > 0 /\ dy < 0 /\ 4 * dy = 0 - 3 * dx -> 0 - 3687
      [] dx < 0 /\ dy > 0 /\ 4 * dy = 0 - 3 * dx -> 14313

angle_locked(node) ==
    (Has(node, "angle_lock") /\ node["angle_lock"] = TRUE)
    \/ (Has(node, "angle_auto") /\ node["angle_auto"] = FALSE)

TranslateKeys == {"pos", "start", "end", "center"}

RECURSIVE translate_node(_, _, _)
translate_node(node, dx, dy) ==
    [k \in DOMAIN node |->
        IF k \in TranslateKeys
        THEN (IF NumPair(node[k]) THEN <<node[k][1] + dx, node[k][2] + dy>> ELSE node[k])
        ELSE IF k = "points"
        THEN [i \in 1..Len(node[k]) |->
                IF NumPair(node[k][i]) THEN <<node[k][i][1] + dx, node[k][i][2] + dy>> ELSE node[k][i]]
        ELSE IF k = "children"
        THEN [i \in 1..Len(node[k]) |-> translate_node(node[k][i], dx, dy)]
        ELSE node[k]]

\* the threshold test of lines 937 and 996: dist_abs >= height * _SNAP_THRESHOLD
too_far(dist_abs, height) == dist_abs * SNAP_THRESHOLD[2] >= height * SNAP_THRESHOLD[1]

\* faulty variant of snap_offset: the whole height instead of half of it
snap_offset_full_height(height) == height + BLOCK_MARGIN

\* height * 0.5 + _BLOCK_MARGIN
snap_offset(height) == height \div 2 + BLOCK_MARGIN

\* proj + n * desired
snapped_pos(best, desired) ==
    <<best[2] + RDiv(best[4] * desired, best[8]), best[3] + RDiv(best[5] * desired, best[8])>>

\* faulty variant of anchor_point: the anchor is hidden whatever the debug mode
anchor_point_hidden(anchor_id, best, debug) ==
    [type |-> "point", id |-> anchor_id, pos |-> <<best[2], best[3]>>,
     radius |-> IF debug THEN Unit \div 20 ELSE Unit \div 25,
     visible |-> FALSE]

anchor_point(anchor_id, best, debug) ==
    [type |-> "point", id |-> anchor_id, pos |-> <<best[2], best[3]>>,
     radius |-> IF debug THEN Unit \div 20 ELSE Unit \div 25,
     visible |-> debug]

\* float(pos[0]) of lines 930 and 988 raises
wrap_block_raises(node) ==
    ~Truthy(node, "snap_disable") /\ Has(node, "pos") /\ IsPair(node["pos"]) /\ ~NumPair(node["pos"])

wrap_block_node(node, planes, debug) ==
    LET \* lines 947-959: a block with an id becomes a group of the block and its anchor
        wrapped(block, best) ==
            IF IdOf(block) = "" THEN block
            ELSE [type |-> "group", id |-> IdOf(block),
                  angle_base_deg |-> Get(block, "angle_deg", Bad),
                  children |-> <<Put(block, "id", IdOf(block) \o "_shape"),
                                 anchor_point(IdOf(block) \o "_anchor", best, debug)>>]
        \* lines 944-945
        turned(block, best) ==
            wrapped(IF ~angle_locked(block)
                    THEN Put(block, "angle_deg", atan2_deg(best[7], best[6]))
                    ELSE block, best)
        \* lines 933-943
        moved(best, height) ==
            IF best = <<>> THEN node
            ELSE IF too_far(best[1], height) THEN node
            ELSE turned(Put(node, "pos", snapped_pos(best, snap_offset(height))), best)
    IN IF Truthy(node, "snap_disable") THEN node
       ELSE IF ~(Has(node, "pos") /\ IsPair(node["pos"])) THEN node
       ELSE moved(nearest_plane(node["pos"][1], node["pos"][2], planes),
                  to_float(node, "height", BLOCK_HEIGHT))

\* index of the first child of type block, 0 when there is none
FirstBlock(children) ==
    IF \E i \in 1..Len(children) : TypeOf(children[i]) = "block"
    THEN CHOOSE i \in 1..Len(children) :
            /\ TypeOf(children[i]) = "block"
            /\ \A j \in 1..(i - 1) : TypeOf(children[j]) # "block"
    ELSE 0

\* faulty variant of find_child_by_id: the child is never found
find_child_by_id_blind(children, obj_id) == 0

\* _find_child_by_id: index of the first child with that id, 0 for None
find_child_by_id(children, obj_id) ==
    IF \E i \in 1..Len(children) : IdOf(children[i]) = obj_id
    THEN CHOOSE i \in 1..Len(children) :
            /\ IdOf(children[i]) = obj_id
            /\ \A j \in 1..(i - 1) : IdOf(children[j]) # obj_id
    ELSE 0

snap_group_raises(node) ==
    LET children == Get(node, "children", <<>>)
        bi == FirstBlock(children)
    IN /\ bi # 0
       /\ ~(Truthy(node, "snap_disable") \/ Truthy(children[bi], "snap_disable"))
       /\ Has(children[bi], "pos") /\ IsPair(children[bi]["pos"]) /\ ~NumPair(children[bi]["pos"])

snap_group_node(node, planes, debug) ==
    LET group_id == IdOf(node)
        \* lines 1029-1031
        finished(children, bi) ==
            Put(IF group_id # ""
                THEN Put(node, "angle_base_deg", Get(children[bi], "angle_deg", Bad))
                ELSE node, "children", children)
        \* lines 1012-1027: the anchor is moved when the group has one, added otherwise
        anchored(children, bi, best, ai) ==
            finished(IF group_id = "" THEN children
                     ELSE IF ai = 0
                     THEN Append(children, anchor_point(group_id \o "_anchor", best, debug))
                     ELSE [i \in 1..Len(children) |->
                              IF i = ai THEN Put(children[i], "pos", <<best[2], best[3]>>)
                              ELSE children[i]], bi)
        \* lines 1009-1010
        turned(children, bi, best) ==
            anchored(IF ~angle_locked(children[bi])
                     THEN [i \in 1..Len(children) |->
                              IF i = bi
                              THEN Put(children[i], "angle_deg", atan2_deg(best[7], best[6]))
                              ELSE children[i]]
                     ELSE children,
                     bi, best, find_child_by_id(children, group_id \o "_anchor"))
        \* lines 1000-1007
        translated(children, bi, best, dx, dy) ==
            turned(IF Abs(dx) > 0 \/ Abs(dy) > 0
                   THEN [i \in 1..Len(children) |-> translate_node(children[i], dx, dy)]
                   ELSE children, bi, best)
        moved(children, bi, best, px, py, new) ==
            translated(children, bi, best, new[1] - px, new[2] - py)
        \* lines 989-998
        measured(children, bi, best, px, py, height) ==
            IF best = <<>> THEN Put(node, "children", children)
            ELSE IF too_far(best[1], height) THEN Put(node, "children", children)
            ELSE moved(children, bi, best, px, py, snapped_pos(best, snap_offset(height)))
        \* lines 984-988
        located(children, bi) ==
            IF ~(Has(children[bi], "pos") /\ IsPair(children[bi]["pos"]))
            THEN Put(node, "children", children)
            ELSE measured(children, bi,
                          nearest_plane(children[bi]["pos"][1], children[bi]["pos"][2], planes),
                          children[bi]["pos"][1], children[bi]["pos"][2],
                          to_float(children[bi], "height", BLOCK_HEIGHT))
        \* lines 978-982: the block child is renamed before any distance test
        renamed(children, bi) ==
            located(IF group_id # "" /\ IdOf(children[bi]) = group_id
                    THEN [i \in 1..Len(children) |->
                             IF i = bi THEN Put(children[i], "id", group_id \o "_shape")
                             ELSE children[i]]
                    ELSE children, bi)
        \* lines 966-976
        entered(children, bi) ==
            IF bi = 0 THEN Put(node, "children", children)
            ELSE IF Truthy(node, "snap_disable") \/ Truthy(children[bi], "snap_disable")
            THEN Put(node, "children", children)
            ELSE renamed(children, bi)
    IN entered(Get(node, "children", <<>>), FirstBlock(Get(node, "children", <<>>)))

snap_raises(children) ==
    \/ collect_planes_raises(children)
    \/ /\ collect_planes(children) # <<>>
       /\ \E i \in 1..Len(children) :
            \/ TypeOf(children[i]) = "block" /\ wrap_block_raises(children[i])
            \/ TypeOf(children[i]) = "group" /\ snap_group_raises(children[i])

snap_blocks_to_planes(children, debug) ==
    LET planes == collect_planes(children)
    IN IF planes = <<>> THEN children
       ELSE [i \in 1..Len(children) |->
                IF TypeOf(children[i]) = "block" THEN wrap_block_node(children[i], planes, debug)
                ELSE IF TypeOf(children[i]) = "group" THEN snap_group_node(children[i], planes, debug)
                ELSE children[i]]

-----------------------------------------------------------------------------
(* _compress_connected_horizontal *)

\* index of the first inclined_plane that has a start and an end, 0 when none
FirstIncline(children) ==
    IF \E i \in 1..Len(children) : TypeOf(children[i]) = "inclined_plane" /\ HasSegment(children[i])
    THEN CHOOSE i \in 1..Len(children) :
            /\ TypeOf(children[i]) = "inclined_plane" /\ HasSegment(children[i])
            /\ \A j \in 1..(i - 1) : ~(TypeOf(children[j]) = "inclined_plane" /\ HasSegment(children[j]))
    ELSE 0

NumSegment(node) == NumPair(node["start"]) /\ NumPair(node["end"])

\* float() of lines 1099-1100 and 1114-1115 raises
compress_raises(children) ==
    LET ii == FirstIncline(children)
    IN /\ ii # 0
       /\ \/ ~NumSegment(children[ii])
          \/ /\ SegLen(children[ii]["start"], children[ii]["end"]) > 0
             /\ \E i \in 1..Len(children) :
                    /\ TypeOf(children[i]) \in {"horizontal_surface", "rough_surface", "smooth_surface"}
                    /\ HasSegment(children[i])
                    /\ ~NumSegment(children[i])

cap_surface(node, ix, iy, incline_len) ==
    IF TypeOf(node) \notin {"horizontal_surface", "rough_surface", "smooth_surface"} \/ ~HasSegment(node)
    THEN node
    ELSE LET sx == node["start"][1]
             sy == node["start"][2]
             dx == node["end"][1] - sx
             dy == node["end"][2] - sy
             length == SegLen(node["start"], node["end"])
             cap == incline_len * HORIZ_RATIO_CAP
         IN IF Abs(sx - ix) < (3 * Unit) \div 10 /\ Abs(sy - iy) < (3 * Unit) \div 10
               /\ length > cap /\ length > 0
            THEN Put(node, "end", <<sx + RDiv(dx * cap, length), sy + RDiv(dy * cap, length)>>)
            ELSE node

compress_connected_horizontal(children) ==
    LET ii == FirstIncline(children)
    IN IF ii = 0 THEN children
       ELSE LET incline_len == SegLen(children[ii]["start"], children[ii]["end"])
            IN IF incline_len <= 0 THEN children
               ELSE [i \in 1..Len(children) |->
                        cap_surface(children[i], children[ii]["end"][1], children[ii]["end"][2], incline_len)]

-----------------------------------------------------------------------------
(* RangeFitter: _maybe_autofit_ranges.  Only the top-level children are
   measured, and only these kinds. *)

autofit_node_raises(node) ==
    LET ctype == TypeOf(node)
    IN IF ctype \in SurfaceTypes \cup {"force_arrow"} THEN
            \/ Has(node, "start") /\ IsPair(node["start"]) /\ ~NumPair(node["start"])
            \/ Has(node, "end") /\ IsPair(node["end"]) /\ ~NumPair(node["end"])
       ELSE IF ctype \in {"block", "text"} THEN
            Has(node, "pos") /\ IsPair(node["pos"]) /\ ~NumPair(node["pos"])
       ELSE IF ctype = "path_polyline" THEN
            Has(node, "points") /\ \E i \in 1..Len(node["points"]) :
                IsPair(node["points"][i]) /\ ~NumPair(node["points"][i])
       ELSE IF ctype \in {"path_arc", "path_circle"} THEN
            Has(node, "center") /\ IsPair(node["center"]) /\ ~NumPair(node["center"])
       ELSE FALSE

autofit_raises(children) == \E i \in 1..Len(children) : autofit_node_raises(children[i])

\* the points one top-level child adds to the bounds
autofit_node_points(node) ==
    LET ctype == TypeOf(node)
    IN IF ctype \in SurfaceTypes \cup {"force_arrow"} THEN points_of_keys(node, {"start", "end"})
       ELSE IF ctype = "block" THEN
            IF Has(node, "pos") /\ IsPair(node["pos"])
            THEN box_points(node["pos"][1], node["pos"][2],
                            to_float(node, "width", BLOCK_WIDTH), to_float(node, "height", BLOCK_HEIGHT))
            ELSE {}
       ELSE IF ctype = "path_polyline" THEN points_of_list(Get(node, "points", <<>>))
       ELSE IF ctype \in {"path_arc", "path_circle"} THEN
            IF Has(node, "center") /\ IsPair(node["center"])
            THEN points_of_disc(node["center"], to_float(node, "radius", Unit))
            ELSE {}
       ELSE IF ctype = "text" THEN points_of_keys(node, {"pos"})
       ELSE {}

autofit_bounds(children, b) ==
    update_bounds_all(b, UNION {autofit_node_points(children[i]) : i \in 1..Len(children)})

maybe_autofit_ranges(spec, children) ==
    LET b == autofit_bounds(children, init_bounds)
    IN IF b = <<>> THEN spec
       ELSE LET auto == auto_ranges(b)
            IN IF range_is_oversized(Get(spec, "x_range", <<>>), auto[1])
                  \/ range_is_oversized(Get(spec, "y_range", <<>>), auto[2])
               THEN Put(Put(spec, "x_range", auto[1]), "y_range", auto[2])
               ELSE spec

-----------------------------------------------------------------------------
(* Ids: _safe_id and _unique_id *)

\* _safe_id on the raw ids and labels of the model: lower-case, runs of other
\* characters become "_", a leading non-letter gets the prefix "id_"
safe_id(raw) ==
    CASE raw = "" -> "id"
      [] raw = "Block" -> "block"
      [] raw = "Block A" -> "block_a"
      [] raw = "2b" -> "id_2b"
      [] raw = "F" -> "f"
      [] raw = "N" -> "n"
      [] OTHER -> raw

RECURSIVE next_free(_, _, _)
next_free(base, idx, used) ==
    IF (base \o "_" \o ToString(idx)) \in used THEN next_free(base, idx + 1, used)
    ELSE base \o "_" \o ToString(idx)

\* the id _unique_id returns; the caller's set becomes used \cup {unique_id(base, used)}
unique_id(base, used) ==
    LET b == IF base = "" THEN "id" ELSE base
    IN IF b \notin used THEN b ELSE next_free(b, 2, used)

-----------------------------------------------------------------------------
(* _compile_objects.  Angles are hundredths of a degree; a direction is
   <<x, y, den>> for the vector (x / den, y / den). *)

\* _unit_from_angle for the plane angles of the model
unit_from_angle(angle_deg) ==
    CASE angle_deg = 0 -> <<1, 0, 1>>
      [] angle_deg = 9000 -> <<0, 1, 1>>
      [] angle_deg = 18000 -> <<0 - 1, 0, 1>>
      [] angle_deg = 3687 -> <<4, 3, 5>>

normalize_length(d, scale_num) ==
    IF ~Has(d, "length") THEN DEFAULT_PLANE_LENGTH * scale_num
    ELSE LET length == to_float(d, "length", DEFAULT_PLANE_LENGTH * scale_num)
         IN IF length <= 2 * Unit THEN RDiv(DEFAULT_PLANE_LENGTH * length, Unit) ELSE length

direction_vector(direction, slope, normal) ==
    CASE direction = "up" -> <<0, 1, 1>>
      [] direction = "down" -> <<0, 0 - 1, 1>>
      [] direction = "left" -> <<0 - 1, 0, 1>>
      [] direction = "right" -> <<1, 0, 1>>
      [] direction = "up_slope" -> slope
      [] direction = "down_slope" -> <<0 - slope[1], 0 - slope[2], slope[3]>>
      [] direction = "normal" -> normal
      [] OTHER -> <<>>

clamp(value, lo, hi) == Max2(lo, Min2(hi, value))

FirstPlane(objects) ==
    IF \E i \in 1..Len(objects) : TypeOf(objects[i]) = "plane"
    THEN CHOOSE i \in 1..Len(objects) :
            TypeOf(objects[i]) = "plane" /\ \A j \in 1..(i - 1) : TypeOf(objects[j]) # "plane"
    ELSE 0

\* the geometry of lines 222-246: [p1, p2, slope, normal, length, angle_deg, plane]
\* plane is the plane object or the empty dict
plane_frame(spec) ==
    LET base_of(rawBase) == IF NumPair(rawBase) THEN <<rawBase[1], rawBase[2]>> ELSE DEFAULT_BASE
        \* lines 235-243: the plane has a start and an end
        spanned(plane, p1, p2, len, slope0, angle_deg) ==
            [p1 |-> <<p1[1], p1[2]>>, p2 |-> <<p2[1], p2[2]>>,
             slope |-> IF len > 0 THEN <<p2[1] - p1[1], p2[2] - p1[2], len>> ELSE slope0,
             normal |-> IF len > 0 THEN <<0 - (p2[2] - p1[2]), p2[1] - p1[1], len>>
                        ELSE <<0 - slope0[2], slope0[1], slope0[3]>>,
             length |-> len, angle_deg |-> angle_deg, plane |-> plane, has_plane |-> TRUE]
        \* lines 244-246
        based(plane, base, slope0, length0, angle_deg) ==
            [p1 |-> base,
             p2 |-> <<base[1] + RDiv(slope0[1] * length0, slope0[3]),
                      base[2] + RDiv(slope0[2] * length0, slope0[3])>>,
             slope |-> slope0, normal |-> <<0 - slope0[2], slope0[1], slope0[3]>>,
             length |-> length0, angle_deg |-> angle_deg, plane |-> plane,
             has_plane |-> plane # Empty]
        angled(plane, angle_deg) ==
            IF HasSegment(plane)
            THEN spanned(plane, plane["start"], plane["end"], SegLen(plane["start"], plane["end"]),
                         unit_from_angle(angle_deg), angle_deg)
            ELSE based(plane,
                       base_of(IF Has(spec, "base") /\ spec["base"] # <<>> THEN spec["base"]
                               ELSE Get(plane, "base", <<>>)),
                       unit_from_angle(angle_deg), normalize_length(plane, 1), angle_deg)
        framed(plane) ==
            angled(plane, IF Has(plane, "angle") THEN to_float(plane, "angle", 0)
                          ELSE to_float(plane, "angle_deg", 0))
        first(objects, pi) == framed(IF pi = 0 THEN Empty ELSE objects[pi])
    IN first(spec["objects"], FirstPlane(spec["objects"]))

\* float() of lines 236-237 and 293 raises ValueError
objects_value_error(spec) ==
    LET objects == spec["objects"]
        pi == FirstPlane(objects)
    IN \/ pi # 0 /\ HasSegment(objects[pi]) /\ ~NumSegment(objects[pi])
       \/ \E i \in 1..Len(objects) :
            TypeOf(objects[i]) = "block" /\ Has(objects[i], "pos")
            /\ IsPair(objects[i]["pos"]) /\ ~NumPair(objects[i]["pos"])

\* the children, ids and bounds after the plane block of lines 250-275
plane_children(fr) ==
    IF ~fr.has_plane THEN [children |-> <<>>, used |-> {}, bounds |-> init_bounds]
    ELSE LET rawId == IF IdOf(fr.plane) = "" THEN "plane" ELSE IdOf(fr.plane)
             plane_id == unique_id(safe_id(rawId), {})
             path_id == unique_id(safe_id("path_" \o plane_id), {plane_id})
         IN [children |-> <<
                [type |-> IF Abs(fr.angle_deg) <= 500 THEN "rough_surface" ELSE "inclined_plane",
                 start |-> fr.p1, end |-> fr.p2, angle_deg |-> fr.angle_deg, id |-> plane_id],
                [type |-> "path_polyline", points |-> <<fr.p1, fr.p2>>, id |-> path_id, visible |-> FALSE] >>,
             used |-> {plane_id, path_id},
             bounds |-> update_bounds(update_bounds(init_bounds, fr.p1[1], fr.p1[2]), fr.p2[1], fr.p2[2])]

\* one iteration of the block loop of lines 278-312 on the accumulator
\* [used, bounds, has_block, block_center, block_id, block_child]
block_step(acc, obj, fr) ==
    IF TypeOf(obj) # "block" THEN acc
    ELSE LET block_w == to_float(obj, "width", BLOCK_WIDTH)
             block_h == to_float(obj, "height", BLOCK_HEIGHT)
             block_offset == IF ~Has(obj, "block_offset") THEN block_h \div 2 + BLOCK_MARGIN
                             ELSE to_float(obj, "block_offset", block_h \div 2 + BLOCK_MARGIN)
             \* pos: <<x, y>> is a point, <<t>> is the scalar t, absent is 0.5
             pos == Get(obj, "pos", <<Half>>)
             t == clamp(IF Len(pos) = 1 /\ pos[1] # Bad THEN pos[1] ELSE Half, 0, Unit)
             along == RDiv(fr.length * t, Unit)
             center == IF IsPair(pos) THEN <<pos[1], pos[2]>>
                       ELSE IF fr.has_plane
                       THEN <<fr.p1[1] + RDiv(fr.slope[1] * along, fr.slope[3]) + RDiv(fr.normal[1] * block_offset, fr.normal[3]),
                              fr.p1[2] + RDiv(fr.slope[2] * along, fr.slope[3]) + RDiv(fr.normal[2] * block_offset, fr.normal[3])>>
                       ELSE <<0, 0>>
             rawId == IF IdOf(obj) = "" THEN "block" ELSE IdOf(obj)
             block_id == unique_id(safe_id(rawId), acc.used)
             used1 == acc.used \cup {block_id}
             block_shape_id == unique_id(safe_id(block_id \o "_shape"), used1)
         IN [used |-> used1 \cup {block_shape_id},
             bounds |-> update_bounds_box(acc.bounds, center[1], center[2], block_w, block_h, fr.angle_deg),
             has_block |-> TRUE, block_center |-> center, block_id |-> block_id,
             block_child |-> [type |-> "block", pos |-> center, width |-> block_w, height |-> block_h,
                              angle_deg |-> fr.angle_deg, fill_opacity |-> 0, id |-> block_shape_id],
             forces |-> acc.forces, has_center |-> TRUE]

\* one iteration of the force loop of lines 315-345
force_step(acc, obj, fr) ==
    IF TypeOf(obj) # "force" THEN acc
    ELSE LET vec == direction_vector(Get(obj, "dir", "right"), fr.slope, fr.normal)
             label == Get(obj, "label", "")
         IN IF vec = <<>> THEN acc
            ELSE LET start == IF acc.has_center THEN acc.block_center
                              ELSE <<(fr.p1[1] + fr.p2[1]) \div 2,
                                     (fr.p1[2] + fr.p2[2]) \div 2 + (BLOCK_HEIGHT \div 2 + BLOCK_MARGIN)>>
                     end == <<start[1] + RDiv(vec[1] * DEFAULT_FORCE_LEN, vec[3]),
                              start[2] + RDiv(vec[2] * DEFAULT_FORCE_LEN, vec[3])>>
                     force_id == unique_id(IF label # "" THEN safe_id(label)
                                           ELSE "force_" \o ToString(Cardinality(acc.used) + 1), acc.used)
                 IN [acc EXCEPT !.used = acc.used \cup {force_id},
                                !.bounds = update_bounds(acc.bounds, end[1], end[2]),
                                !.block_center = start,
                                !.has_center = TRUE,
                                !.forces = Append(acc.forces,
                                    [type |-> "force_arrow", start |-> start, end |-> end, label |-> label,
                                     font_size |-> FORCE_FONT_SIZE, label_pos |-> "tip",
                                     label_offset_ratio |-> 18, label_back_ratio |-> 20, id |-> force_id])]

RECURSIVE block_loop(_, _, _)
block_loop(acc, objects, fr) ==
    IF objects = <<>> THEN acc ELSE block_loop(block_step(acc, Head(objects), fr), Tail(objects), fr)

RECURSIVE force_loop(_, _, _)
force_loop(acc, objects, fr) ==
    IF objects = <<>> THEN acc ELSE force_loop(force_step(acc, Head(objects), fr), Tail(objects), fr)

\* the locals at line 347
objects_locals(spec, fr) ==
    LET started(pc0) ==
            force_loop(block_loop([used |-> pc0.used, bounds |-> pc0.bounds, has_block |-> FALSE,
                                   block_center |-> <<>>, block_id |-> "", block_child |-> Empty,
                                   forces |-> <<>>, has_center |-> FALSE],
                                  spec["objects"], fr),
                       spec["objects"], fr)
    IN started(plane_children(fr))

\* line 352 reads block_id, which no block object has bound: UnboundLocalError
objects_unbound_error(acc) ==
    acc.has_center /\ acc.forces # <<>> /\ ~acc.has_block

compile_objects(base_children, acc) ==
    LET world(children, auto) ==
            [type |-> "world2d", x_range |-> auto[1], y_range |-> auto[2], children |-> children]
    IN world(IF ~acc.has_center THEN base_children
             ELSE IF acc.forces # <<>>
             THEN Append(base_children, [type |-> "group", id |-> acc.block_id,
                                         children |-> <<acc.block_child>> \o acc.forces])
             ELSE Append(base_children, Put(acc.block_child, "id", acc.block_id)),
             auto_ranges(acc.bounds))

-----------------------------------------------------------------------------
(* SpecNormalizer: _parse_diagram_spec *)

\* Free text is the sequence of its `key: value` lines, [key |-> k, val |-> v];
\* re.search takes the first line that matches a pattern.
FirstLine(lines, keys) ==
    IF \E i \in 1..Len(lines) : lines[i].key \in keys
    THEN CHOOSE i \in 1..Len(lines) :
            lines[i].key \in keys /\ \A j \in 1..(i - 1) : lines[j].key \notin keys
    ELSE 0

parse_diagram_spec_text(lines) ==
    LET found(keys) == FirstLine(lines, keys) # 0
        \* <<>> is "auto", <<Bad>> is a value without a number
        parsed(key) ==
            CASE key = "lock_range" -> found({"lock_range", "fixed_range"})
              [] key = "u" -> found({"u"}) /\ lines[FirstLine(lines, {"u"})].val # <<Bad>>
              [] OTHER -> found({key})
    IN [key \in {k \in {"x_range", "y_range", "origin", "u", "lock_range"} : parsed(k)} |->
            IF key = "lock_range" THEN TRUE ELSE lines[FirstLine(lines, {key})].val]

\* _parse_diagram_spec(raw) or {}
parse_diagram_spec(spec) ==
    IF ~Has(spec, "diagram_spec") THEN Empty
    ELSE IF DOMAIN spec["diagram_spec"] = {"text"} THEN parse_diagram_spec_text(spec["diagram_spec"]["text"])
    ELSE spec["diagram_spec"]

-----------------------------------------------------------------------------
(* _normalize_world2d, lines 369-406: the locals *)

world_locals(o) ==
    LET target(ds, key, default) ==
            IF Has(ds, key) /\ IsPair(ds[key]) THEN <<ds[key][1], ds[key][2]>>
            ELSE IF Has(o, key) /\ IsPair(o[key]) THEN <<o[key][1], o[key][2]>>
            ELSE default
        \* <<>> is None: "auto", absent, or not a number
        u_of(raw_u) == IF Len(raw_u) = 2 /\ raw_u[1] # Bad THEN raw_u ELSE <<>>
        origin_of(origin_val) ==
            IF NumPair(origin_val) THEN <<origin_val[1], origin_val[2]>> ELSE <<0, 0>>
        locals(ds) ==
            [ds |-> ds,
             origin |-> origin_of(Get(ds, "origin", <<0, 0>>)),
             explicit_x |-> Has(ds, "x_range") /\ IsPair(ds["x_range"]),
             explicit_y |-> Has(ds, "y_range") /\ IsPair(ds["y_range"]),
             lock_range |-> \/ Truthy(ds, "lock_range") \/ Truthy(ds, "fixed_range")
                            \/ Has(ds, "x_range") /\ IsPair(ds["x_range"])
                            \/ Has(ds, "y_range") /\ IsPair(ds["y_range"])
                            \/ Has(o, "x_range") /\ IsPair(o["x_range"])
                            \/ Has(o, "y_range") /\ IsPair(o["y_range"]),
             target_x |-> target(ds, "x_range", DEFAULT_X_RANGE),
             target_y |-> target(ds, "y_range", DEFAULT_Y_RANGE),
             u_val |-> u_of(IF Has(ds, "u") THEN ds["u"]
                            ELSE IF Has(ds, "unit") THEN ds["unit"] ELSE Get(ds, "scale", <<>>)),
             apply_scale |-> Truthy(ds, "apply_scale"),
             debug_mode |-> IF ds # Empty THEN Truthy(ds, "debug") ELSE Truthy(o, "debug")]
    IN locals(parse_diagram_spec(o))

\* float() of lines 394-395 raises ValueError
locals_value_error(e) ==
    e.target_x[1] = Bad \/ e.target_x[2] = Bad \/ e.target_y[1] = Bad \/ e.target_y[2] = Bad

\* lines 408-417: the unit scale that will be applied, <<>> when none is
resolve_u(e, raw_children) ==
    LET has_bounds == collect_bounds(raw_children, init_bounds) # <<>>
        u1 == IF e.apply_scale /\ e.u_val = <<>> /\ has_bounds
              THEN compute_auto_u(raw_children, e.target_x, e.target_y)
              ELSE e.u_val
    IN IF e.apply_scale /\ u1 # <<>> /\ u1[1] > 0
       THEN IF Get(e.ds, "quantize", TRUE) = TRUE THEN quantize_u(u1) ELSE u1
       ELSE <<>>

\* faulty variant of scale_own_range: the world's own range is left unscaled
scale_own_range_skipped(o, key, axis, u, e) == o

\* lines 427-442: the world's own range follows the scale unless diagram_spec names the axis
scale_own_range(o, key, axis, u, e) ==
    IF Has(o, key) /\ ~Has(e.ds, key) /\ NumPair(o[key])
    THEN Put(o, key, <<e.origin[axis] + scale_len(o[key][1] - e.origin[axis], u),
                       e.origin[axis] + scale_len(o[key][2] - e.origin[axis], u)>>)
    ELSE o

-----------------------------------------------------------------------------
(* The inputs.  Coordinates are multiples of half a scene unit. *)

U == Unit
H == Half

Ground == [type |-> "horizontal_surface", id |-> "ground", start |-> <<0, 0>>, end |-> <<8 * U, 0>>]
Slope == [type |-> "inclined_plane", id |-> "slope", start |-> <<0 - 4 * H, 0 - 3 * H>>, end |-> <<0, 0>>]
BadSurface == [type |-> "rough_surface", id |-> "r", start |-> <<Bad, 0>>, end |-> <<U, 0>>]
BlockNear == [type |-> "block", id |-> "b", pos |-> <<2 * U, H>>]
BlockFar == [type |-> "block", id |-> "b", pos |-> <<2 * U, 3 * U>>, height |-> U]
BlockWide == [type |-> "block", id |-> "c", pos |-> <<2 * U, U>>, width |-> 2 * U, height |-> U]
BlockAnon == [type |-> "block", pos |-> <<U, H>>, angle_lock |-> TRUE]
Arrow(x, y) == [type |-> "force_arrow", start |-> <<x, y>>, end |-> <<x, y + U>>, font_size |-> 20 * U]
GroupFar == [type |-> "group", id |-> "g",
             children |-> <<[type |-> "block", id |-> "g", pos |-> <<2 * U, 3 * U>>, height |-> U],
                            Arrow(2 * U, 3 * U)>>]
GroupNear == [type |-> "group", id |-> "h",
              children |-> <<Arrow(3 * U, H), [type |-> "block", id |-> "hb", pos |-> <<3 * U, H>>]>>]
Teapot == [type |-> "levitating_teapot", id |-> "t", pos |-> <<U, U>>, lid |-> "open",
           style |-> [color |-> "red", width |-> 3], angle |-> 3000]
Label == [type |-> "text", id |-> "label_x", pos |-> <<0, U>>, text |-> "A"]
Note == [type |-> "text", id |-> "n", pos |-> <<U, U>>, text |-> "B"]
BlockOff == [type |-> "block", id |-> "d", pos |-> <<2 * U, H>>, snap_disable |-> TRUE]
GroupOff == [type |-> "group", id |-> "k", snap_disable |-> TRUE,
             children |-> <<[type |-> "block", id |-> "k", pos |-> <<3 * U, H>>]>>]
GroupChildOff == [type |-> "group", id |-> "m",
                  children |-> <<[type |-> "block", id |-> "mb", pos |-> <<3 * U, H>>,
                                  snap_disable |-> TRUE]>>]

\* a circle whose id makes it a block
Puck == [type |-> "circle", id |-> "block", center |-> <<2 * U, H>>, radius |-> U]
GroupMarked == [type |-> "group", id |-> "q",
                children |-> <<[type |-> "block", id |-> "qb", pos |-> <<3 * U, H>>],
                               [type |-> "angle_marker", p1 |-> <<4 * U, H>>, p2 |-> <<3 * U, 3 * H>>]>>]

ChildPool == {Ground, Slope, BadSurface, BlockNear, BlockFar, BlockWide, BlockAnon,
              GroupFar, GroupNear, Teapot, Label, Note, BlockOff, GroupOff, GroupChildOff,
              GroupMarked, Puck}

\* the function f on 1..n as a sequence
RECURSIVE SeqOf(_, _)
SeqOf(f, n) == IF n = 0 THEN <<>> ELSE Append(SeqOf(f, n - 1), f[n])

\* the world-level fields: declared ranges, diagram_spec, debug
WorldHeaders == {
    [type |-> "world2d"],
    [type |-> "world2d", debug |-> TRUE],
    [type |-> "world2d", x_range |-> <<0 - 1000 * U, 1000 * U>>],
    [type |-> "world2d", x_range |-> <<0 - 5 * U, 5 * U>>, y_range |-> <<0 - 3 * U, 3 * U>>,
     diagram_spec |-> [x_range |-> <<0 - 2 * U, 2 * U>>, debug |-> TRUE]],
    [type |-> "world2d", diagram_spec |-> [lock_range |-> TRUE]],
    [type |-> "world2d", debug |-> TRUE,
     diagram_spec |-> [text |-> <<[key |-> "note", val |-> <<>>], [key |-> "fixed_range", val |-> <<>>]>>]],
    [type |-> "world2d", y_range |-> <<0 - 4 * U, 4 * U>>,
     diagram_spec |-> [apply_scale |-> TRUE, u |-> <<2, 1>>, origin |-> <<U, 0>>]],
    [type |-> "world2d", diagram_spec |-> [apply_scale |-> TRUE, u |-> <<>>]],
    [type |-> "world2d", diagram_spec |-> [apply_scale |-> TRUE, unit |-> <<3, 1>>, y_range |-> <<0 - 3 * U, 3 * U>>]],
    [type |-> "world2d", diagram_spec |-> [apply_scale |-> TRUE, u |-> <<1, 1>>, origin |-> <<U, 0>>]],
    [type |-> "world2d", diagram_spec |-> [apply_scale |-> TRUE, scale |-> <<4, 1>>, quantize |-> FALSE]],
    [type |-> "world2d", diagram_spec |-> [text |-> <<[key |-> "u", val |-> <<2, 1>>]>>]],
    [type |-> "world2d", x_range |-> <<Bad, U>>] }

\* automatic scaling of a diagram that is a single point multiplies by 10^6 and
\* more; those inputs are left out
AutoScaleInRange(header, children) ==
    LET e == world_locals(header)
        b == collect_bounds(children, init_bounds)
    IN (e.apply_scale /\ e.u_val = <<>> /\ b # <<>>) => (b[2] > b[1] \/ b[4] > b[3])

Plane0 == [type |-> "plane"]
PlaneRamp == [type |-> "plane", id |-> "ramp", start |-> <<0, 0>>, end |-> <<4 * U, 3 * U>>, angle |-> 3687]
PlaneBad == [type |-> "plane", start |-> <<Bad, 0>>, end |-> <<U, 0>>]
ObjBlock == [type |-> "block", id |-> "block"]
ObjBlockB == [type |-> "block", id |-> "Block", pos |-> <<U, U>>, height |-> U]
ObjForce == [type |-> "force", dir |-> "up"]
ObjForceF == [type |-> "force", dir |-> "normal", label |-> "F"]
ObjTeapot == [type |-> "levitating_teapot", id |-> "t", lid |-> "open"]

ObjectPool == {Plane0, PlaneRamp, PlaneBad, ObjBlock, ObjBlockB, ObjForce, ObjForceF, ObjTeapot}

ObjectHeaders == {Empty, [type |-> "objects", diagram_spec |-> [lock_range |-> TRUE]]}

\* specs compile_visual_spec hands back as they are
OtherInputs == {Empty, [id |-> "v"], Teapot,
                [type |-> "world3d", children |-> <<Teapot>>],
                [type |-> "group", children |-> <<BlockNear>>],
                [type |-> "text", text |-> "A"]}

-----------------------------------------------------------------------------
(* The builder (visuals/library/builder.py).  A drawable is a record: a
   placeholder with its label, a VGroup with the drawables of its children, or
   the drawable of a registered component, which is known only by its kind.
   A warning of None is the empty string. *)

\* the names under which the library registers a component builder
Components ==
    {"path_polyline", "path_arc", "path_circle", "path_projectile", "path_parametric", "track",
     "grid", "graphpaper", "axes2d", "number_line", "reference_frame", "axes3d", "world3d",
     "dashed_line", "ground", "incline", "track_arc", "step", "pulley", "spring", "force_arrow",
     "dimension_arrow", "angle_marker", "right_angle", "horizontal_surface", "smooth_surface",
     "rough_surface", "inclined_plane", "wall", "track_line", "trackline",
     "loop_the_loop_track", "table_with_edge", "conveyor_belt", "wedge", "pulley_support",
     "point", "line", "polyline", "circle", "arc", "rectangle", "polygon", "text", "arrow",
     "point3d", "line3d", "polyline3d", "polygon3d", "vector3d", "text3d", "cube", "particle",
     "block", "ball", "cart", "rod", "ring", "disk", "pulleywheel", "beam", "platform",
     "obstacle"}

\* _build_spec with _build_world2d, _build_world3d and _build_group
RECURSIVE build_spec(_)
build_spec(spec) ==
    LET ctype == TypeOf(spec)
        placeholder(label) == [kind |-> "placeholder", label |-> label]
        grouped(children) ==
            [mobject |-> [kind |-> "VGroup",
                          parts |-> [i \in 1..Len(children) |-> build_spec(children[i]).mobject]],
             warning |-> ""]
    IN IF spec = Empty THEN [mobject |-> placeholder("Visual"), warning |-> "empty_visual"]
       ELSE IF ctype = "" THEN [mobject |-> placeholder("Visual"), warning |-> "missing_type"]
       ELSE IF ctype \in {"world2d", "world3d", "group"} THEN grouped(Get(spec, "children", <<>>))
       ELSE IF ctype \notin Components
       THEN [mobject |-> placeholder("Unknown: " \o ctype), warning |-> "unknown_component"]
       ELSE [mobject |-> [kind |-> ctype], warning |-> ""]

-----------------------------------------------------------------------------
(* The state machine *)

InitWorld ==
    \E h \in WorldHeaders, n \in 0..MaxChildren :
        \E f \in [1..n -> ChildPool] :
            /\ AutoScaleInRange(h, SeqOf(f, n))
            /\ arg0 = Put(h, "children", SeqOf(f, n))

InitObjects ==
    \E h \in ObjectHeaders, n \in 0..MaxObjects :
        \E f \in [1..n -> ObjectPool] :
            arg0 = Put(h, "objects", SeqOf(f, n))

InitOther == arg0 \in OtherInputs

Init ==
    /\ (InitWorld \/ InitObjects \/ InitOther)
    /\ arg = arg0
    /\ pc = "call"
    /\ out = Empty
    /\ kids = <<>>
    /\ env = Empty
    /\ pre = <<>>
    /\ src = <<>>
    /\ exc = ""
    /\ hist = <<>>

Raise(name) ==
    /\ pc' = "raised"
    /\ exc' = name

\* compile_visual_spec, lines 74-79 and 90: nothing to compile
ReturnSpec ==
    /\ pc = "call"
    /\ TypeOf(arg) # "world2d"
    /\ ~(Has(arg, "objects") /\ TypeOf(arg) \in {"", "objects"})
    /\ pc' = "done"
    /\ out' = arg
    /\ UNCHANGED <<hist, arg0, arg, kids, env, pre, src, exc>>

\* compile_visual_spec, lines 80-84
CompileObjects ==
    /\ pc = "call"
    /\ TypeOf(arg) # "world2d"
    /\ Has(arg, "objects") /\ TypeOf(arg) \in {"", "objects"}
    /\ LET returned(compiled) ==
               IF Has(arg, "diagram_spec") /\ arg["diagram_spec"] # Empty
               THEN Put(compiled, "diagram_spec", arg["diagram_spec"])
               ELSE compiled
           looped(fr, acc) ==
               IF objects_unbound_error(acc) THEN Raise("UnboundLocalError") /\ UNCHANGED out
               ELSE /\ pc' = "done"
                    /\ exc' = exc
                    /\ out' = returned(compile_objects(plane_children(fr).children, acc))
           framed(fr) == looped(fr, objects_locals(arg, fr))
       IN IF objects_value_error(arg) THEN Raise("ValueError") /\ UNCHANGED out
          ELSE framed(plane_frame(arg))
    /\ UNCHANGED <<hist, arg0, arg, kids, env, pre, src>>

\* _normalize_world2d, lines 370-371
EnterWorld2d ==
    /\ pc = "call"
    /\ TypeOf(arg) = "world2d"
    /\ pc' = "parse"
    /\ out' = arg
    /\ kids' = Get(arg, "children", <<>>)
    /\ UNCHANGED <<hist, arg0, arg, env, pre, src, exc>>

\* lines 372-406
ParseSpec ==
    /\ pc = "parse"
    /\ LET parsed(e) ==
            IF locals_value_error(e) THEN Raise("ValueError") /\ UNCHANGED env
            ELSE pc' = "scale" /\ env' = e /\ exc' = exc
       IN parsed(world_locals(out))
    /\ UNCHANGED <<hist, arg0, arg, out, kids, pre, src>>

\* lines 408-442: _scale_node writes into the child dicts, which the caller's
\* spec and out share
ScaleChildren ==
    /\ pc = "scale"
    /\ LET u == resolve_u(env, kids)
       IN IF u = <<>> THEN UNCHANGED <<arg, out, kids, env>>
          ELSE LET scaled == [i \in 1..Len(kids) |-> scale_node(kids[i], u, env.origin)]
                   o1 == IF Has(out, "children") /\ out["children"] # <<>>
                         THEN Put(out, "children", scaled) ELSE out
               IN /\ kids' = scaled
                  /\ arg' = IF Has(arg, "children") /\ arg["children"] # <<>>
                            THEN Put(arg, "children", scaled) ELSE arg
                  /\ out' = scale_own_range(scale_own_range(o1, "x_range", 1, u, env), "y_range", 2, u, env)
                  /\ env' = [env EXCEPT !.u_val = u]
    /\ pc' = "ranges"
    /\ UNCHANGED <<hist, arg0, pre, src, exc>>

\* lines 443-447
FixRanges ==
    /\ pc = "ranges"
    /\ LET o1 == IF env.explicit_x THEN Put(out, "x_range", env.target_x) ELSE out
           o2 == IF env.explicit_y THEN Put(o1, "y_range", env.target_y) ELSE o1
       IN out' = Put(o2, "_lock_range", env.lock_range)
    /\ pc' = "normalize"
    /\ UNCHANGED <<hist, arg0, arg, kids, env, pre, src, exc>>

\* the input indexes of the children _normalize_node keeps
RECURSIVE kept_indexes(_, _)
kept_indexes(nodes, i) ==
    IF i > Len(nodes) THEN <<>>
    ELSE (IF normalize_node(nodes[i]) = <<>> THEN <<>> ELSE <<i>>) \o kept_indexes(nodes, i + 1)

\* lines 449-455
NormalizeChildren ==
    /\ pc = "normalize"
    /\ kids' = normalize_all(kids)
    /\ src' = kept_indexes(kids, 1)
    /\ pc' = "compress"
    /\ UNCHANGED <<hist, arg0, arg, out, env, pre, exc>>

\* line 457
Compress ==
    /\ pc = "compress"
    /\ IF compress_raises(kids) THEN Raise("ValueError") /\ UNCHANGED kids
       ELSE pc' = "snap" /\ kids' = compress_connected_horizontal(kids) /\ exc' = exc
    /\ UNCHANGED <<hist, arg0, arg, out, env, pre, src>>

\* lines 458-460
Snap ==
    /\ pc = "snap"
    /\ IF snap_raises(kids) THEN Raise("ValueError") /\ UNCHANGED <<kids, out, pre>>
       ELSE /\ pc' = "autofit"
            /\ exc' = exc
            /\ pre' = kids
            /\ kids' = snap_blocks_to_planes(kids, env.debug_mode)
            /\ out' = Put(out, "children", snap_blocks_to_planes(kids, env.debug_mode))
    /\ UNCHANGED <<hist, arg0, arg, env, src>>

\* lines 461-464
Autofit ==
    /\ pc = "autofit"
    /\ IF ~out["_lock_range"] /\ autofit_raises(kids) THEN Raise("ValueError") /\ UNCHANGED out
       ELSE /\ pc' = "done"
            /\ exc' = exc
            /\ out' = Del(IF ~out["_lock_range"] THEN maybe_autofit_ranges(out, kids) ELSE out, "_lock_range")
    /\ UNCHANGED <<hist, arg0, arg, kids, env, pre, src>>

\* build_visual, lines 27-29: the compiled spec is built
BuildVisual ==
    /\ pc = "done"
    /\ pc' = "shown"
    /\ out' = build_spec(out)
    /\ UNCHANGED <<hist, arg0, arg, kids, env, pre, src, exc>>

Next ==
    \/ ReturnSpec
    \/ CompileObjects
    \/ EnterWorld2d
    \/ ParseSpec
    \/ ScaleChildren
    \/ FixRanges
    \/ NormalizeChildren
    \/ Compress
    \/ Snap
    \/ Autofit
    \/ BuildVisual

Spec == Init /\ [][Next]_vars

\* The stored result of one compile is compiled again (compile_plan_visuals when
\* planning, build_visual when rendering); hist keeps the earlier results.
Recompile ==
    /\ pc = "done"
    /\ Len(hist) < MaxCompiles - 1
    \* as for the first call, results whose next scaling leaves the grid (a diagram
    \* that is a single point, a surface whose ends do not divide by u) are left out
    /\ TypeOf(out) = "world2d" =>
          LET children == Get(out, "children", <<>>)
              exact(c, u) == (c * u[2]) % u[1] = 0
              on_grid(u, o) ==
                  IF u = <<>> THEN TRUE
                  ELSE \A i \in 1..Len(children) :
                          (TypeOf(children[i]) \in SurfaceTypes /\ HasSegment(children[i])
                           /\ NumPair(children[i]["start"]) /\ NumPair(children[i]["end"])) =>
                              /\ exact(children[i]["start"][1] - o[1], u)
                              /\ exact(children[i]["start"][2] - o[2], u)
                              /\ exact(children[i]["end"][1] - o[1], u)
                              /\ exact(children[i]["end"][2] - o[2], u)
          IN /\ AutoScaleInRange(out, children)
             /\ on_grid(resolve_u(world_locals(out), children), world_locals(out).origin)
    /\ hist' = Append(hist, out)
    /\ arg0' = out
    /\ arg' = out
    /\ pc' = "call"
    /\ out' = Empty
    /\ kids' = <<>>
    /\ env' = Empty
    /\ pre' = <<>>
    /\ src' = <<>>
    /\ exc' = exc

SpecTwice == Init /\ [][Next \/ Recompile]_vars

-----------------------------------------------------------------------------
(* _nearest_plane on its own: a body position and the planes of up to MaxPlanes
   surfaces *)

MaxPlanes == 2

\* the calls of _nearest_plane: arg0 is the position, pre the planes
InitPlane ==
    LET Surfaces == {Ground, Slope,
                     [type |-> "smooth_surface", id |-> "ledge", start |-> <<0, 2 * U>>, end |-> <<2 * U, 2 * U>>]}
        Coords == {0 - U, U, 3 * U, 10 * U}
        Heights == {0 - U, H, 3 * H, 3 * U}
    IN /\ \E x \in Coords, y \in Heights : arg0 = <<x, y>>
       /\ \E n \in 0..MaxPlanes : \E f \in [1..n -> Surfaces] : pre = collect_planes(SeqOf(f, n))
       /\ arg = arg0
       /\ pc = "nearest"
       /\ out = Empty
       /\ kids = <<>>
       /\ env = Empty
       /\ src = <<>>
       /\ exc = ""
       /\ hist = <<>>

\* lines 731-747
NearestPlane ==
    /\ pc = "nearest"
    /\ pc' = "found"
    /\ out' = nearest_plane(arg[1], arg[2], pre)
    /\ UNCHANGED <<hist, arg0, arg, kids, env, pre, src, exc>>

SpecPlane == InitPlane /\ [][NearestPlane]_vars

-----------------------------------------------------------------------------
(* Tracks (visuals/library/tracks.py).  Scene points are pairs on the same
   grid (the z coordinate is always 0 and never read); angles given by a
   track spec are whole degrees; radians are kept in thousandths. *)

MaxSegments == 2
MaxPoints == 3

\* World2DContext.to_scene
to_scene(ctx, x, y) ==
    <<(x - RDiv(ctx.x_min + ctx.x_max, 2)) * ctx.scale_x,
      (y - RDiv(ctx.y_min + ctx.y_max, 2)) * ctx.scale_y>>

\* _world_point: a value that does not unpack into two numbers is the fallback (0, 0)
world_point(ctx, value) ==
    IF Len(value) = 2 THEN to_scene(ctx, value[1], value[2]) ELSE to_scene(ctx, 0, 0)

normalize_normal(vec, mode) ==
    IF \/ mode = "up" /\ vec[2] < 0
       \/ mode = "down" /\ vec[2] > 0
       \/ mode = "left" /\ vec[1] > 0
       \/ mode = "right" /\ vec[1] < 0
    THEN <<0 - vec[1], 0 - vec[2]>> ELSE vec

\* np.deg2rad, in thousandths of a radian (pi taken as 355/113)
deg2rad(deg) == RDiv(deg * 355 * 1000, 113 * 180)

\* np.cos of a right angle; np.sin(a) is taken as the cosine of a - 90 degrees
cos_deg(deg) == CASE deg % 360 = 0 -> 1 [] deg % 360 = 180 -> 0 - 1 [] deg % 180 = 90 -> 0

\* scene_pts after appending each point of pts that differs from the point before it
extend_points(scene_pts, pts) ==
    LET keep == {i \in 1..Len(pts) :
                    IF i = 1 THEN scene_pts = <<>> \/ scene_pts[Len(scene_pts)] # pts[1]
                    ELSE pts[i] # pts[i - 1]}
        nth(k) == CHOOSE i \in keep : Cardinality({j \in keep : j <= i}) = k
    IN scene_pts \o [k \in 1..Cardinality(keep) |-> pts[nth(k)]]

\* one line segment for every consecutive pair of distinct points
line_segments(pts) ==
    LET pairs == [i \in 1..(Len(pts) - 1) |-> [type |-> "line", p0 |-> pts[i], p1 |-> pts[i + 1]]]
        distinct(seg) == seg.p0 # seg.p1
    IN SelectSeq(pairs, distinct)

\* the sample points of an arc segment, np.linspace over its angles
arc_points(ctx, seg) ==
    LET center == Get(seg, "center", <<0, 0>>)
        radius == Get(seg, "radius", Unit)
        start_deg == Get(seg, "start_angle_deg", 0)
        end_deg == IF Has(seg, "end_angle_deg") THEN seg["end_angle_deg"]
                   ELSE start_deg + Get(seg, "angle_deg", 90)
        samples == Max2(2, Get(seg, "samples", 24))
        at_angle(ang) ==
            IF radius = 0 THEN world_point(ctx, center)
            ELSE world_point(ctx, <<center[1] + radius * cos_deg(ang),
                                    center[2] + radius * cos_deg(ang - 90)>>)
    IN [k \in 1..samples |->
            at_angle(start_deg + ((k - 1) * (end_deg - start_deg)) \div (samples - 1))]

\* the track segment recorded for an arc under a uniform scale
arc_segment_unsigned(ctx, seg) ==
    LET start_deg == Get(seg, "start_angle_deg", 0)
        end_deg == IF Has(seg, "end_angle_deg") THEN seg["end_angle_deg"]
                   ELSE start_deg + Get(seg, "angle_deg", 90)
    IN [type |-> "arc",
        center |-> world_point(ctx, Get(seg, "center", <<0, 0>>)),
        radius |-> Get(seg, "radius", Unit) * Min2(ctx.scale_x, ctx.scale_y),
        start |-> deg2rad(start_deg),
        sweep |-> deg2rad(Abs(end_deg - start_deg)),
        sign |-> 1]

arc_segment(ctx, seg) ==
    LET start_deg == Get(seg, "start_angle_deg", 0)
        end_deg == IF Has(seg, "end_angle_deg") THEN seg["end_angle_deg"]
                   ELSE start_deg + Get(seg, "angle_deg", 90)
    IN [type |-> "arc",
        center |-> world_point(ctx, Get(seg, "center", <<0, 0>>)),
        radius |-> Get(seg, "radius", Unit) * Min2(ctx.scale_x, ctx.scale_y),
        start |-> deg2rad(start_deg),
        sweep |-> deg2rad(end_deg - start_deg),
        sign |-> IF end_deg - start_deg >= 0 THEN 1 ELSE 0 - 1]

\* one pass of the loop over spec["segments"]; acc holds scene_pts and track_segments
track_segment_step(acc, seg, ctx) ==
    LET stype == Get(seg, "type", "line")
        a == Get(seg, "a", Get(seg, "start", <<>>))
        b == Get(seg, "b", Get(seg, "end", <<>>))
        lined(p0, p1) ==
            [pts |-> Append(extend_points(acc.pts, <<p0>>), p1),
             segs |-> acc.segs \o line_segments(<<p0, p1>>)]
        arced(pts) ==
            [pts |-> extend_points(acc.pts, <<pts[1]>>) \o Tail(pts),
             segs |-> IF ctx.scale_x = ctx.scale_y
                      THEN Append(acc.segs, arc_segment(ctx, seg))
                      ELSE acc.segs \o line_segments(pts)]
        polylined(pts) ==
            [pts |-> extend_points(acc.pts, pts),
             segs |-> acc.segs \o line_segments(pts)]
        scene(pts) == [i \in 1..Len(pts) |-> world_point(ctx, pts[i])]
    IN CASE stype = "line" ->
                IF a = <<>> \/ b = <<>> THEN acc
                ELSE lined(world_point(ctx, a), world_point(ctx, b))
         [] stype = "arc" -> arced(arc_points(ctx, seg))
         [] stype = "polyline" -> polylined(scene(Get(seg, "points", <<>>)))
         [] OTHER -> acc

RECURSIVE track_segment_loop(_, _, _, _)
track_segment_loop(acc, segments, i, ctx) ==
    IF i > Len(segments) THEN acc
    ELSE track_segment_loop(track_segment_step(acc, segments[i], ctx), segments, i + 1, ctx)

\* _build_track_points: the scene points and the track segments of a spec
build_track_points(spec, ctx) ==
    LET points == Get(spec, "points", <<>>)
        scene(pts) == [i \in 1..Len(pts) |-> world_point(ctx, pts[i])]
        listed(pts) == [pts |-> pts, segs |-> line_segments(pts)]
    IN IF points # <<>> THEN listed(scene(points))
       ELSE track_segment_loop([pts |-> <<>>, segs |-> <<>>], Get(spec, "segments", <<>>), 1, ctx)

\* the descriptor after one more measured segment
add_segment_uncounted(data, seg) ==
    [data EXCEPT !.segments = Append(@, seg), !.total = @ + seg.len]

add_segment(data, seg) ==
    [segments |-> Append(data.segments, seg),
     total |-> data.total + seg.len,
     cum |-> Append(data.cum, data.total + seg.len),
     normal_mode |-> data.normal_mode]

\* a track segment with its length (and, for a line, its tangent and normal);
\* <<>> when _build_track_data skips it
measure_segment(seg, normal_mode) ==
    LET stype == Get(seg, "type", "line")
        line(dx, dy, seg_len) ==
            IF seg_len = 0 THEN <<>>
            ELSE [type |-> "line", p0 |-> seg.p0, p1 |-> seg.p1, len |-> seg_len,
                  tan |-> <<RDiv(dx * Unit, seg_len), RDiv(dy * Unit, seg_len)>>,
                  norm |-> normalize_normal(<<RDiv((0 - dy) * Unit, seg_len),
                                              RDiv(dx * Unit, seg_len)>>, normal_mode)]
        vec(dx, dy) == line(dx, dy, ISqrt(dx * dx + dy * dy))
    IN CASE stype = "line" -> vec(seg.p1[1] - seg.p0[1], seg.p1[2] - seg.p0[2])
         [] stype = "arc" ->
                IF seg.radius <= 0 \/ seg.sweep = 0 THEN <<>>
                ELSE [type |-> "arc", center |-> seg.center, radius |-> seg.radius,
                      start |-> seg.start, sweep |-> seg.sweep,
                      sign |-> IF seg.sweep >= 0 THEN 1 ELSE 0 - 1,
                      len |-> RDiv(Abs(seg.sweep) * seg.radius, 1000)]
         [] OTHER -> <<>>

RECURSIVE measure_loop(_, _, _)
measure_loop(data, segs, i) ==
    IF i > Len(segs) THEN data
    ELSE LET counted(seg) == IF seg = <<>> THEN data ELSE add_segment(data, seg)
         IN measure_loop(counted(measure_segment(segs[i], data.normal_mode)), segs, i + 1)

\* _build_track_data
build_track_data(scene_pts, normal_mode, track_segments) ==
    LET deduped == extend_points(<<>>, scene_pts)
        cleaned == IF Len(deduped) < 2 THEN <<<<0 - Unit, 0>>, <<Unit, 0>>>> ELSE deduped
        start == [segments |-> <<>>, total |-> 0, cum |-> <<0>>, normal_mode |-> normal_mode]
        finished(data) ==
            IF data.segments # <<>> THEN data
            ELSE [segments |-> <<[p0 |-> cleaned[1], p1 |-> cleaned[2], len |-> Unit,
                                  tan |-> <<Unit, 0>>, norm |-> <<0, Unit>>]>>,
                  total |-> Unit, cum |-> <<0, Unit>>, normal_mode |-> normal_mode]
    IN finished(measure_loop(start,
                             IF track_segments # <<>> THEN track_segments
                             ELSE line_segments(cleaned), 1))

\* the calls of track: a track spec (a points list or a segments list under a
\* header) and a world context
InitTrack ==
    LET
        Contexts ==
            {[x_min |-> 0 - 6 * Unit, x_max |-> 6 * Unit, y_min |-> 0 - 4 * Unit, y_max |-> 4 * Unit,
              scale_x |-> 1, scale_y |-> 1],
             [x_min |-> 0, x_max |-> 4 * Unit, y_min |-> 0, y_max |-> 2 * Unit,
              scale_x |-> 2, scale_y |-> 2],
             [x_min |-> 0 - 6 * Unit, x_max |-> 6 * Unit, y_min |-> 0 - 4 * Unit, y_max |-> 4 * Unit,
              scale_x |-> 1, scale_y |-> 2]}
        TrackPoints == {<<0, 0>>, <<3 * Unit, 0>>, <<3 * Unit, 4 * Unit>>}
        TrackSegments ==
            {[type |-> "line", a |-> <<0, 0>>, b |-> <<3 * Unit, 0>>],
             [type |-> "line", start |-> <<3 * Unit, 0>>, end |-> <<3 * Unit, 4 * Unit>>],
             [type |-> "line", a |-> <<0, 0>>, b |-> <<0, 0>>],
             [type |-> "line", a |-> <<3 * Unit, 4 * Unit>>, b |-> <<3 * Unit, 4 * Unit>>],
             [type |-> "line", a |-> <<0, 0>>],
             [type |-> "arc", center |-> <<3 * Unit, Unit>>, radius |-> Unit,
              start_angle_deg |-> 0 - 90, angle_deg |-> 180, samples |-> 2],
             [type |-> "arc", center |-> <<0, 0>>, radius |-> 2 * Unit,
              start_angle_deg |-> 180, end_angle_deg |-> 90, samples |-> 2],
             [type |-> "arc", center |-> <<0, 0>>, radius |-> 0],
             [type |-> "arc", center |-> <<3 * Unit, 4 * Unit>>, radius |-> 0, samples |-> 2],
             [type |-> "arc", center |-> <<0, Unit>>, radius |-> Unit, angle_deg |-> 0],
             [type |-> "polyline", points |-> <<<<0, 0>>, <<0, 0>>, <<3 * Unit, 4 * Unit>>>>],
             [type |-> "spline"]}
        TrackHeaders == {Empty, [normal_mode |-> "down"], [id |-> "t", normal_mode |-> "left"]}
    IN /\ \/ \E h \in TrackHeaders, n \in 0..MaxPoints : \E f \in [1..n -> TrackPoints] :
               arg0 = Put(h, "points", SeqOf(f, n))
          \/ \E h \in TrackHeaders, n \in 0..MaxSegments : \E f \in [1..n -> TrackSegments] :
               arg0 = Put(h, "segments", SeqOf(f, n))
       /\ env \in Contexts
       /\ arg = arg0
       /\ pc = "track"
       /\ out = Empty
       /\ kids = <<>>
       /\ pre = <<>>
       /\ src = <<>>
       /\ exc = ""
       /\ hist = <<>>

\* track, lines 252-254: the scene points (two at least) and the track segments
TrackPath ==
    /\ pc = "track"
    /\ LET built(r) ==
            /\ pre' = IF Len(r.pts) < 2
                      THEN <<to_scene(env, 0 - Unit, 0), to_scene(env, Unit, 0)>>
                      ELSE r.pts
            /\ kids' = r.segs
       IN built(build_track_points(arg, env))
    /\ pc' = "path"
    /\ UNCHANGED <<hist, arg0, arg, out, env, src, exc>>

\* track, lines 266-269: the descriptor stored on the drawable
TrackData ==
    /\ pc = "path"
    /\ out' = build_track_data(pre, Get(arg, "normal_mode", "up"), kids)
    /\ pc' = "built"
    /\ UNCHANGED <<hist, arg0, arg, kids, env, pre, src, exc>>

SpecTrack == InitTrack /\ [][TrackPath \/ TrackData]_vars

-----------------------------------------------------------------------------
(* The track query at(t) of the motion layer, which is not part of src/: it is
   written here from its description (section 4.6 of the specification) over
   the descriptor that track stores.  t runs over the fractions k / MaxT. *)

MaxT == 4

\* the first segment whose stretch of the cumulative table holds k/MaxT of the
\* total length; 0 when the table has no such stretch
at_segment(data, k) ==
    LET holds == {i \in 1..Len(data.segments) :
                    /\ i + 1 <= Len(data.cum)
                    /\ data.cum[i] * MaxT <= k * data.total
                    /\ k * data.total <= data.cum[i + 1] * MaxT}
    IN IF holds = {} THEN 0 ELSE SetMin(holds)

\* the position at(k/MaxT): interpolated on a line, from the circle equation on an arc
at_position(data, k) ==
    LET on_line(seg, num) ==
            <<seg.p0[1] + RDiv((seg.p1[1] - seg.p0[1]) * num, seg.len * MaxT),
              seg.p0[2] + RDiv((seg.p1[2] - seg.p0[2]) * num, seg.len * MaxT)>>
        \* the right angle, in degrees, of an angle in thousandths of a radian
        deg_of(a) == CHOOSE d \in {90 * n : n \in (0 - 8)..8} : Abs(deg2rad(d) - a) <= 5
        on_circle(seg, ang) ==
            <<seg.center[1] + seg.radius * cos_deg(deg_of(ang)),
              seg.center[2] + seg.radius * cos_deg(deg_of(ang) - 90)>>
        on_arc(seg, num) ==
            on_circle(seg, seg.start + seg.sign * RDiv(num * 1000, seg.radius * MaxT))
        on(seg, num) ==
            IF Get(seg, "type", "line") = "arc" THEN on_arc(seg, num) ELSE on_line(seg, num)
        found(i) == on(data.segments[i], k * data.total - data.cum[i] * MaxT)
    IN found(at_segment(data, k))

-----------------------------------------------------------------------------
(* Properties.  Helpers first. *)

\* the nodes of the trees, parents before their children
RECURSIVE flatten(_)
flatten(nodes) ==
    IF nodes = <<>> THEN <<>>
    ELSE <<Head(nodes)>> \o flatten(Get(Head(nodes), "children", <<>>)) \o flatten(Tail(nodes))

\* the ids carried by the nodes of the trees
tree_ids(nodes) == {IdOf(flatten(nodes)[i]) : i \in {ii \in 1..Len(flatten(nodes)) : Has(flatten(nodes)[ii], "id")}}

WorldCall == TypeOf(arg0) = "world2d"
ObjectsCall == TypeOf(arg0) # "world2d" /\ Has(arg0, "objects")
Returned == pc = "done"
\* _snap_blocks_to_planes has returned: pre holds its input, kids its result
SnapDone == WorldCall /\ pc \in {"autofit", "done"}

\* the diagram_spec of the call, parsed
CallSpec == parse_diagram_spec(arg0)
DeclaredIn(d, key) == Has(d, key) /\ IsPair(d[key])
LockMarker == Truthy(CallSpec, "lock_range") \/ Truthy(CallSpec, "fixed_range")
AnyDeclared ==
    \/ DeclaredIn(CallSpec, "x_range") \/ DeclaredIn(CallSpec, "y_range")
    \/ DeclaredIn(arg0, "x_range") \/ DeclaredIn(arg0, "y_range")
    \/ LockMarker

\* the unit scale was applied, with u = env.u_val
ScaleApplied == env.apply_scale /\ env.u_val # <<>> /\ env.u_val[1] > 0

\* the world's own range on an axis after the unit scale
OwnRange(key, axis) ==
    IF ScaleApplied
    THEN <<env.origin[axis] + scale_len(arg0[key][1] - env.origin[axis], env.u_val),
           env.origin[axis] + scale_len(arg0[key][2] - env.origin[axis], env.u_val)>>
    ELSE <<arg0[key][1], arg0[key][2]>>

\* every point of P, widened by the padding, lies inside the two ranges
Contains(xr, yr, P) ==
    \A p \in P :
        /\ xr[1] <= p[1] - RANGE_PADDING /\ p[1] + RANGE_PADDING <= xr[2]
        /\ yr[1] <= p[2] - RANGE_PADDING /\ p[2] + RANGE_PADDING <= yr[2]

\* the body of a top-level child: the block itself, or the first block of a group
BodyOf(node) ==
    IF TypeOf(node) = "block" THEN node
    ELSE IF TypeOf(node) = "group" /\ FirstBlock(Get(node, "children", <<>>)) # 0
    THEN node["children"][FirstBlock(node["children"])]
    ELSE Empty

\* the nearest-plane projection of the body of pre[i] at the time of snapping
BestOf(i) ==
    LET body == BodyOf(pre[i])
    IN IF body # Empty /\ Has(body, "pos") /\ NumPair(body["pos"])
       THEN nearest_plane(body["pos"][1], body["pos"][2], collect_planes(pre))
       ELSE <<>>

\* the top-level blocks that may snap and lie nearer than 1.1 times h(i) to a plane
NearBlocks(h(_)) ==
    {i \in 1..Len(pre) :
        /\ TypeOf(pre[i]) = "block"
        /\ ~Truthy(pre[i], "snap_disable")
        /\ BestOf(i) # <<>>
        /\ BestOf(i)[1] * SNAP_THRESHOLD[2] < h(i) * SNAP_THRESHOLD[1]}

\* the child of the input that pre[i] was normalized from (after the unit scale)
RawOf(i) == arg["children"][src[i]]
\* 0 when the block declares no height
DeclaredHeight(i) == IF Has(RawOf(i), "height") THEN RawOf(i)["height"] ELSE 0
\* the side normalization gives the block: the larger of width and height, and
\* for a circle made a block that declares neither, twice its radius (lines 508-513)
SquaredHeight(i) ==
    LET raw == RawOf(i)
        radius == Get(raw, "radius", Get(raw, "r", BLOCK_WIDTH \div 2))
    IN IF TypeOf(raw) = "circle" /\ ~Has(raw, "width") /\ ~Has(raw, "height") /\ radius # Bad
       THEN 2 * radius
       ELSE Max2(to_float(raw, "width", BLOCK_WIDTH), to_float(raw, "height", BLOCK_HEIGHT))

\* the block of kids[i] after snapping, wrapped in a group or not
ShapeOf(i) == IF TypeOf(kids[i]) = "group" THEN kids[i]["children"][1] ELSE kids[i]

\* projection point plus unit normal times h / 2
RestingPos(i, h) ==
    <<BestOf(i)[2] + RDiv(BestOf(i)[4] * (h \div 2), BestOf(i)[8]),
      BestOf(i)[3] + RDiv(BestOf(i)[5] * (h \div 2), BestOf(i)[8])>>

\* the nearest plane of pre[i] is horizontal, at y = 0, and runs under the block
OnFlatGround(i) ==
    /\ BestOf(i)[7] = 0 /\ BestOf(i)[6] > 0 /\ BestOf(i)[3] = 0
    /\ BestOf(i)[2] = pre[i]["pos"][1]

\* C1: a world2d without declared ranges and without lock marker is returned
\* with an x_range and a y_range that contain every point of every object of
\* the output tree, nested or not, widened by the padding 0.6.
C1_RangesContainObjects ==
    (Returned /\ WorldCall /\ ~AnyDeclared /\ Has(out, "x_range") /\ Has(out, "y_range")) =>
        Contains(out["x_range"], out["y_range"], tree_points(out["children"]))

\* the range auto-computed from the normalized objects, <<>> when they have no bounds
AutoRange(axis) ==
    IF autofit_bounds(kids, init_bounds) = <<>> THEN <<>>
    ELSE auto_ranges(autofit_bounds(kids, init_bounds))[axis]

OversizedDeclared(key, axis) ==
    /\ Has(arg0, key) /\ NumPair(arg0[key])
    /\ CallSpec = Empty
    /\ AutoRange(axis) # <<>>
    /\ (arg0[key][2] - arg0[key][1]) * RANGE_OVERSIZE[2]
           > (AutoRange(axis)[2] - AutoRange(axis)[1]) * RANGE_OVERSIZE[1]

\* C2: a declared x_range or y_range of the world whose span is more than 1.3
\* times the span of the range auto-computed from the normalized objects is
\* replaced in the output by the auto-computed range.
C2_OversizedRangeReplaced ==
    (Returned /\ WorldCall) =>
        /\ OversizedDeclared("x_range", 1) => out["x_range"] = AutoRange(1)
        /\ OversizedDeclared("y_range", 2) => out["y_range"] = AutoRange(2)

\* C3 as stated: with any declared range or lock marker, every declared range
\* of diagram_spec and of the world reaches the output (the world's own one
\* rescaled when the unit scale is applied) and an undeclared axis gets no range.
C3_EveryDeclaredRangeReachesOutput ==
    (Returned /\ WorldCall /\ AnyDeclared) =>
        \A axis \in {1, 2} :
            LET key == IF axis = 1 THEN "x_range" ELSE "y_range"
            IN /\ DeclaredIn(CallSpec, key) => out[key] = <<CallSpec[key][1], CallSpec[key][2]>>
               /\ DeclaredIn(arg0, key) => out[key] = OwnRange(key, axis)
               /\ (~DeclaredIn(CallSpec, key) /\ ~DeclaredIn(arg0, key)) => ~Has(out, key)

\* C3 amended: with any declared range or lock marker auto-fit does not run;
\* on each axis the output carries the range of diagram_spec when it declares
\* one, otherwise the world's own range (rescaled when the unit scale is
\* applied), and no range when neither declares one.
C3_LockedRangesByPrecedence ==
    (Returned /\ WorldCall /\ AnyDeclared) =>
        \A axis \in {1, 2} :
            LET key == IF axis = 1 THEN "x_range" ELSE "y_range"
            IN IF DeclaredIn(CallSpec, key) THEN out[key] = <<CallSpec[key][1], CallSpec[key][2]>>
               ELSE IF DeclaredIn(arg0, key) THEN out[key] = OwnRange(key, axis)
               ELSE ~Has(out, key)

\* a world that declares an x_range of its own and another in diagram_spec has
\* returned with the latter, and with its own y_range
C3_Witness ==
    /\ Returned /\ WorldCall /\ Len(kids) > 0
    /\ DeclaredIn(CallSpec, "x_range") /\ DeclaredIn(arg0, "x_range")
    /\ out["x_range"] # arg0["x_range"]
    /\ DeclaredIn(arg0, "y_range") /\ out["y_range"] = arg0["y_range"]

\* C4 as stated: a block of declared height h nearer than 1.1 h to a plane
\* ends with its centre at the projection point plus the unit normal times h / 2.
C4_DeclaredHeightOffset ==
    SnapDone =>
        \A i \in NearBlocks(DeclaredHeight) \cap {j \in 1..Len(pre) : Has(RawOf(j), "height")} :
            ShapeOf(i)["pos"] = RestingPos(i, DeclaredHeight(i))

\* C4 amended: with h the larger of the block's width (declared, or 0.8) and
\* height (declared, or 0.5), a block nearer than 1.1 h to a plane ends with
\* its centre at the projection point plus the unit normal times h / 2; on a
\* horizontal surface at y = 0 its centre is (x, h / 2) and the anchor of a
\* block that has an id sits at (x, 0).
C4_SquaredHeightOffset ==
    SnapDone =>
        \A i \in NearBlocks(SquaredHeight) :
            /\ ShapeOf(i)["pos"] = RestingPos(i, SquaredHeight(i))
            /\ OnFlatGround(i) =>
                /\ ShapeOf(i)["pos"] = <<pre[i]["pos"][1], SquaredHeight(i) \div 2>>
                /\ IdOf(pre[i]) # "" => kids[i]["children"][2]["pos"] = <<pre[i]["pos"][1], 0>>

\* a block wider than high was wrapped and rests on the horizontal surface at
\* y = 0 at half its width
C4_Witness ==
    /\ SnapDone
    /\ \E i \in NearBlocks(SquaredHeight) :
        /\ OnFlatGround(i)
        /\ Has(RawOf(i), "width") /\ Has(RawOf(i), "height")
        /\ RawOf(i)["width"] > RawOf(i)["height"]
        /\ TypeOf(kids[i]) = "group"
        /\ ShapeOf(i)["pos"][2] = RawOf(i)["width"] \div 2

\* C5: a top-level block with id X that snaps becomes a group with id X whose
\* children are exactly the block, with id X_shape, and a point with id
\* X_anchor at the projection point, visible exactly in debug mode.
C5_SnappedBlockWrapped ==
    SnapDone =>
        \A i \in NearBlocks(SquaredHeight) :
            IdOf(pre[i]) # "" =>
                /\ TypeOf(kids[i]) = "group"
                /\ IdOf(kids[i]) = IdOf(pre[i])
                /\ Len(kids[i]["children"]) = 2
                /\ TypeOf(kids[i]["children"][1]) = "block"
                /\ IdOf(kids[i]["children"][1]) = IdOf(pre[i]) \o "_shape"
                /\ TypeOf(kids[i]["children"][2]) = "point"
                /\ IdOf(kids[i]["children"][2]) = IdOf(pre[i]) \o "_anchor"
                /\ kids[i]["children"][2]["pos"] = <<BestOf(i)[2], BestOf(i)[3]>>
                /\ kids[i]["children"][2]["visible"] = env.debug_mode

\* a block with an id was wrapped while debug mode was on
C5_Witness ==
    /\ SnapDone /\ env.debug_mode
    /\ \E i \in NearBlocks(SquaredHeight) :
        IdOf(pre[i]) # "" /\ TypeOf(kids[i]) = "group" /\ kids[i]["children"][2]["visible"] = TRUE

\* the top-level blocks and groups whose body is at least 1.1 times its height
\* away from every plane
FarBodies ==
    {i \in 1..Len(pre) :
        /\ BodyOf(pre[i]) # Empty
        /\ BestOf(i) # <<>>
        /\ BestOf(i)[1] * SNAP_THRESHOLD[2]
              >= to_float(BodyOf(pre[i]), "height", BLOCK_HEIGHT) * SNAP_THRESHOLD[1]}

\* C6: a block, or a group whose first block child is the body, that is at
\* least 1.1 times its height away from the nearest plane leaves snapping with
\* every field as it was.
C6_FarBodiesUntouched ==
    SnapDone => \A i \in FarBodies : kids[i] = pre[i]

\* C7: no two objects of a returned tree, at any depth, carry the same id.
C7_IdsUnique ==
    Returned =>
        LET nodes == flatten(Get(out, "children", <<>>))
        IN \A i, j \in 1..Len(nodes) :
            (i < j /\ Has(nodes[i], "id") /\ Has(nodes[j], "id")) => IdOf(nodes[i]) # IdOf(nodes[j])

\* the objects of the call that ask for the id "block"
BlockRequests ==
    {i \in 1..Len(arg0["objects"]) :
        TypeOf(arg0["objects"][i]) = "block" /\ IdOf(arg0["objects"][i]) = "block"}

\* C8: an objects-form spec in which two objects ask for the id "block" is
\* returned as a tree that holds an object with id block and one with id block_2.
C8_SecondRequesterGetsSuffix ==
    (Returned /\ ObjectsCall /\ Cardinality(BlockRequests) >= 2) =>
        {"block", "block_2"} \subseteq tree_ids(out["children"])

\* the objects of the call whose kind the compiler does not know
Unknown(objs) == {i \in 1..Len(objs) : TypeOf(objs[i]) = "levitating_teapot"}

\* C9: an object of unknown kind is in the compiled output with exactly the
\* fields and values it had in the input, in the world2d form and in the
\* objects form (worlds that ask for the unit scale aside).
C9_UnknownKindUnchanged ==
    Returned =>
        /\ (WorldCall /\ ~Truthy(CallSpec, "apply_scale")) =>
            \A i \in Unknown(arg0["children"]) :
                \E j \in 1..Len(out["children"]) : out["children"][j] = arg0["children"][i]
        /\ ObjectsCall =>
            \A i \in Unknown(arg0["objects"]) :
                \E j \in 1..Len(flatten(out["children"])) : flatten(out["children"])[j] = arg0["objects"][i]

\* C10: compile_visual_spec returns for every dict, whatever is missing or
\* malformed in it; no exception leaves the call.
C10_NeverRaises == pc # "raised"

\* C11: every world2d that is returned carries an x_range and a y_range, each
\* a pair of numbers, whatever its objects and whether or not ranges were declared.
C11_RangesAlwaysPresent ==
    (Returned /\ TypeOf(out) = "world2d") =>
        /\ Has(out, "x_range") /\ NumPair(out["x_range"])
        /\ Has(out, "y_range") /\ NumPair(out["y_range"])

\* the children of the call as they were passed in
InputChildren == Get(arg0, "children", <<>>)
\* the unit scale diagram_spec gives as a number, <<>> when it gives none
ExplicitU == world_locals(arg0).u_val
UnitOne == ExplicitU # <<>> /\ ExplicitU[1] > 0 /\ ExplicitU[1] = ExplicitU[2]
\* _scale_node has run over the children: kids holds its result
ScaleDone == WorldCall /\ pc = "ranges"
CoordKeys == {"pos", "start", "end", "center", "points"}

\* the output object that the input child src[i] became: the block inside the
\* wrapper when snapping wrapped it
OutOf(i) ==
    IF TypeOf(InputChildren[src[i]]) # "group" /\ TypeOf(kids[i]) = "group"
    THEN kids[i]["children"][1] ELSE kids[i]

SameCoords(a, b) == \A k \in CoordKeys \cap DOMAIN a : k \in DOMAIN b /\ b[k] = a[k]

\* C12 as stated: a spec with unit scale 1 is returned with every coordinate
\* field of every object equal to its input value.
C12_CompileKeepsCoordinates ==
    (Returned /\ WorldCall /\ UnitOne) =>
        \A i \in 1..Len(kids) :
            /\ SameCoords(InputChildren[src[i]], OutOf(i))
            /\ TypeOf(InputChildren[src[i]]) = "group" =>
                 \A j \in 1..Len(InputChildren[src[i]]["children"]) :
                     SameCoords(InputChildren[src[i]]["children"][j], kids[i]["children"][j])

\* C12 amended: the unit scaling step with u = 1 leaves every object, with
\* every coordinate field at any depth, as it was passed in.
C12_ScalingByOneIsIdentity ==
    (ScaleDone /\ UnitOne) => (kids = InputChildren /\ arg = arg0)

\* the scaling step ran with u = 1 about an origin other than (0, 0) over
\* children that carry coordinates
C12_Witness ==
    /\ ScaleDone /\ UnitOne /\ ScaleApplied /\ env.origin # <<0, 0>>
    /\ \E i \in 1..Len(kids) : Has(kids[i], "pos")
    /\ \E i \in 1..Len(kids) : TypeOf(kids[i]) = "group"

\* b is a scaled by 1/u about origin: points move, size-like scalars shrink
ScaledBy(a, b, u, origin) ==
    /\ \A k \in {"pos", "start", "end", "center"} \cap DOMAIN a :
          NumPair(a[k]) =>
              b[k] = <<origin[1] + RDiv((a[k][1] - origin[1]) * u[2], u[1]),
                       origin[2] + RDiv((a[k][2] - origin[2]) * u[2], u[1])>>
    /\ \A k \in SCALE_KEYS \cap DOMAIN a :
          a[k] # Bad => b[k] = RDiv(a[k] * u[2], u[1])

\* C13: when diagram_spec gives the unit scale as a positive number u, in a
\* field or in free text, the scaling step uses exactly u: every coordinate p
\* becomes origin + (p - origin) / u and every size-like scalar s becomes s / u.
C13_ExplicitUnitScaleUsed ==
    (ScaleDone /\ ExplicitU # <<>> /\ ExplicitU[1] > 0) =>
        \A i \in 1..Len(InputChildren) :
            /\ ScaledBy(InputChildren[i], kids[i], ExplicitU, env.origin)
            /\ TypeOf(InputChildren[i]) = "group" =>
                 \A j \in 1..Len(InputChildren[i]["children"]) :
                     ScaledBy(InputChildren[i]["children"][j], kids[i]["children"][j],
                              ExplicitU, env.origin)

\* auto-fit wrote the ranges of the returned world: _maybe_autofit_ranges found
\* bounds in an unlocked world2d, or _compile_objects fitted its own bounds
AutoFitted ==
    /\ Returned
    /\ \/ WorldCall /\ ~env.lock_range /\ autofit_bounds(kids, init_bounds) # <<>>
       \/ ObjectsCall

SpanFloor(range, default_range) ==
    (range[2] - range[1]) * MIN_SPAN_RATIO[2]
        >= (default_range[2] - default_range[1]) * MIN_SPAN_RATIO[1]

\* C14: every range produced by auto-fit spans at least 0.45 times the default
\* viewport span of its axis, also when the bounds are a single point.
C14_AutoSpanFloor ==
    AutoFitted =>
        /\ SpanFloor(out["x_range"], DEFAULT_X_RANGE)
        /\ SpanFloor(out["y_range"], DEFAULT_Y_RANGE)

\* auto-fit ran on a world whose measured bounds are a single point and wrote
\* ranges of exactly the minimum span
C14_Witness ==
    /\ AutoFitted /\ WorldCall
    /\ autofit_bounds(kids, init_bounds)[1] = autofit_bounds(kids, init_bounds)[2]
    /\ autofit_bounds(kids, init_bounds)[3] = autofit_bounds(kids, init_bounds)[4]
    /\ (out["x_range"][2] - out["x_range"][1]) * MIN_SPAN_RATIO[2]
           = (DEFAULT_X_RANGE[2] - DEFAULT_X_RANGE[1]) * MIN_SPAN_RATIO[1]

-----------------------------------------------------------------------------
(* Track descriptors *)

TrackBuilt == pc = "built"

RECURSIVE SumLen(_, _)
SumLen(segments, n) == IF n = 0 THEN 0 ELSE SumLen(segments, n - 1) + segments[n].len

\* C15: in every descriptor built by _build_track_data, cum has one entry more
\* than segments, starts at 0, never decreases, grows by exactly the recorded
\* length of each segment, and ends at total, the sum of the segment lengths.
C15_CumTableConsistent ==
    TrackBuilt =>
        /\ Len(out.cum) = Len(out.segments) + 1
        /\ out.cum[1] = 0
        /\ \A i \in 1..Len(out.segments) :
              /\ out.cum[i + 1] >= out.cum[i]
              /\ out.cum[i + 1] - out.cum[i] = out.segments[i].len
        /\ out.cum[Len(out.cum)] = out.total
        /\ out.total = SumLen(out.segments, Len(out.segments))

C15_Witness ==
    /\ TrackBuilt
    /\ Len(out.segments) = 2
    /\ out.segments[1].type = "line"
    /\ out.segments[2].type = "arc"
    /\ out.cum[2] > 0
    /\ out.cum[3] > out.cum[2]

\* the scene points of the call's own points list, or of nothing when it gives segments
GivenPoints == [i \in 1..Len(Get(arg0, "points", <<>>)) |-> world_point(env, arg0["points"][i])]
GivenSegments == IF Get(arg0, "points", <<>>) # <<>> THEN <<>> ELSE Get(arg0, "segments", <<>>)
\* a line with coincident (or missing) ends, an arc of no radius or no sweep,
\* a polyline of coincident points, or a segment of an unknown kind
ZeroLength(seg) ==
    CASE Get(seg, "type", "line") = "line" ->
            \/ Get(seg, "a", Get(seg, "start", <<>>)) = <<>>
            \/ Get(seg, "b", Get(seg, "end", <<>>)) = <<>>
            \/ Get(seg, "a", Get(seg, "start", <<>>)) = Get(seg, "b", Get(seg, "end", <<>>))
      [] Get(seg, "type", "line") = "arc" ->
            \/ Get(seg, "radius", Unit) = 0
            \/ arc_segment(env, seg).sweep = 0
      [] Get(seg, "type", "line") = "polyline" ->
            Cardinality({Get(seg, "points", <<>>)[i] : i \in 1..Len(Get(seg, "points", <<>>))}) <= 1
      [] OTHER -> TRUE
\* no points, one point, coincident points only, or zero-length segments only
Degenerate ==
    /\ Cardinality({GivenPoints[i] : i \in 1..Len(GivenPoints)}) <= 1
    /\ \A i \in 1..Len(GivenSegments) : ZeroLength(GivenSegments[i])

\* C16: a track built from degenerate input has a descriptor with exactly one
\* segment, a horizontal line of recorded length 1, and total length 1.
C16_DegenerateGivesUnitSegment ==
    (TrackBuilt /\ Degenerate) =>
        /\ Len(out.segments) = 1
        /\ out.segments[1].p0[2] = out.segments[1].p1[2]
        /\ out.segments[1].tan = <<Unit, 0>>
        /\ out.segments[1].len = Unit
        /\ out.total = Unit

\* every part the call gives has a length: at least two distinct points, or
\* segments of which none degenerates
FullLength ==
    /\ GivenSegments # <<>> \/ Cardinality({GivenPoints[i] : i \in 1..Len(GivenPoints)}) > 1
    /\ \A i \in 1..Len(GivenSegments) :
          ~ZeroLength(GivenSegments[i])

-----------------------------------------------------------------------------
(* Snapping opt-out *)

\* no child of a surface kind has a start and an end that differ
NoValidSurface(children) ==
    \A i \in 1..Len(children) :
        ~(/\ TypeOf(children[i]) \in SurfaceTypes
          /\ HasSegment(children[i])
          /\ children[i]["start"] # children[i]["end"])
\* a block, a group, or the block child of a group carries snap_disable
OptedOut(node) ==
    \/ TypeOf(node) \in {"block", "group"} /\ Get(node, "snap_disable", FALSE) = TRUE
    \/ /\ TypeOf(node) = "group"
       /\ FirstBlock(Get(node, "children", <<>>)) # 0
       /\ Get(node["children"][FirstBlock(node["children"])], "snap_disable", FALSE) = TRUE

-----------------------------------------------------------------------------
(* build_visual *)

Shown == pc = "shown"

\* C19: build_visual returns, for every spec, a result whose drawable is not
\* None: the empty_visual placeholder for a missing or empty spec, the
\* missing_type placeholder for a spec without a type, the unknown_component
\* placeholder for an unregistered type, and the built world2d for a typeless
\* spec with an objects list.
C19_BuildVisualAlwaysReturns ==
    /\ pc # "raised"
    /\ Shown =>
          /\ out.mobject # <<>>
          /\ arg0 = Empty =>
                out.mobject.kind = "placeholder" /\ out.warning = "empty_visual"
          /\ (arg0 # Empty /\ TypeOf(arg0) = "" /\ ~Has(arg0, "objects")) =>
                out.mobject.kind = "placeholder" /\ out.warning = "missing_type"
          /\ (TypeOf(arg0) \notin Components \cup {"", "world2d", "world3d", "group", "objects"}) =>
                out.mobject.kind = "placeholder" /\ out.warning = "unknown_component"
          /\ (TypeOf(arg0) = "" /\ Has(arg0, "objects")) =>
                out.mobject.kind = "VGroup" /\ out.warning = ""

\* the same without the calls in which the compile step raises
C19_ReturnedResultsAreBuilt ==
    Shown =>
          /\ out.mobject # <<>>
          /\ arg0 = Empty =>
                out.mobject.kind = "placeholder" /\ out.warning = "empty_visual"
          /\ (arg0 # Empty /\ TypeOf(arg0) = "" /\ ~Has(arg0, "objects")) =>
                out.mobject.kind = "placeholder" /\ out.warning = "missing_type"
          /\ (TypeOf(arg0) \notin Components \cup {"", "world2d", "world3d", "group", "objects"}) =>
                out.mobject.kind = "placeholder" /\ out.warning = "unknown_component"
          /\ (TypeOf(arg0) = "" /\ Has(arg0, "objects")) =>
                out.mobject.kind = "VGroup" /\ out.warning = ""

-----------------------------------------------------------------------------
(* Order of the passes *)

\* the bounds the final auto-fit measures, taken when snapping has finished
FitBounds == autofit_bounds(kids, init_bounds)
\* snapping moved the body of child i
MovedBySnap(i) ==
    /\ BodyOf(pre[i]) # Empty
    /\ BodyOf(kids[i]) # Empty
    /\ Has(BodyOf(pre[i]), "pos") /\ Has(BodyOf(kids[i]), "pos")
    /\ BodyOf(kids[i])["pos"] # BodyOf(pre[i])["pos"]
InBounds(b, p) == b # <<>> /\ b[1] <= p[1] /\ p[1] <= b[2] /\ b[3] <= p[2] /\ p[2] <= b[4]

\* C20: in a world2d compile no range is fitted before scaling has finished, and
\* the final auto-fit runs on the children as snapping left them, so every body
\* that snapping moved lies, at its snapped position, inside the bounds the
\* auto-fit measures.
C20_FitSeesSnappedBodies ==
    /\ (WorldCall /\ pc \in {"parse", "scale"}) =>
          /\ Get(out, "x_range", <<>>) = Get(arg0, "x_range", <<>>)
          /\ Get(out, "y_range", <<>>) = Get(arg0, "y_range", <<>>)
    /\ (WorldCall /\ pc = "autofit" /\ ~out["_lock_range"] /\ ~autofit_raises(kids)) =>
          \A i \in 1..Len(kids) :
              MovedBySnap(i) => InBounds(FitBounds, BodyOf(kids[i])["pos"])

-----------------------------------------------------------------------------
(* Repeated compilation *)

\* a compile of an earlier result has returned
Recompiled == pc = "done" /\ hist # <<>>

\* the coordinates, sizes, ids and ranges of a spec and of the objects below it
RECURSIVE Geometry(_)
Geometry(node) ==
    [k \in DOMAIN node \cap (PointKeys \cup SCALE_KEYS \cup
                              {"id", "points", "angle_deg", "x_range", "y_range", "children"}) |->
        IF k = "children" THEN [i \in 1..Len(node[k]) |-> Geometry(node[k][i])] ELSE node[k]]

\* C21: compiling the result of a compile again returns a spec with the same
\* coordinates, sizes, ids and ranges.
C21_CompileIdempotent ==
    Recompiled => Geometry(out) = Geometry(hist[Len(hist)])

(* The argument *)
\* C22: compile_visual_spec leaves its argument as it was: after the call the spec
\* and every child below it hold the values they held before, unit scaling included.
C22_ArgumentUnmodified ==
    Returned => arg = arg0

(* The viewport of auto-fit *)
\* the span auto-fit gives the bounds lo..hi of an axis before clamping: padded,
\* and raised to the minimum span
PaddedSpan(lo, hi, default_range) ==
    Max2(hi - lo + 2 * RANGE_PADDING,
         ((default_range[2] - default_range[1]) * MIN_SPAN_RATIO[1]) \div MIN_SPAN_RATIO[2])
Inside(range, default_range) ==
    default_range[1] <= range[1] /\ range[2] <= default_range[2]
\* a range for the bounds lo..hi that keeps the padded span when that is narrower
\* than the default range, and is the default range otherwise
ShiftedOrDefault(range, lo, hi, default_range) ==
    IF PaddedSpan(lo, hi, default_range) >= default_range[2] - default_range[1]
    THEN range = default_range
    ELSE range[2] - range[1] = PaddedSpan(lo, hi, default_range)
\* the padded range of the bounds lo..hi sticks out of the default range
SticksOut(lo, hi, default_range) ==
    lo - RANGE_PADDING < default_range[1] \/ hi + RANGE_PADDING > default_range[2]

\* C23: every range auto-fit returns lies inside the default viewport, x within
\* [-6, 6] and y within [-3.5, 3.5]; a padded range narrower than the default keeps
\* its span and a range at least as wide as the default is the default range.
C23_AutoFitInsideViewport ==
    /\ AutoFitted =>
          /\ Inside(out["x_range"], DEFAULT_X_RANGE)
          /\ Inside(out["y_range"], DEFAULT_Y_RANGE)
    /\ (AutoFitted /\ WorldCall) =>
          /\ ShiftedOrDefault(out["x_range"], FitBounds[1], FitBounds[2], DEFAULT_X_RANGE)
          /\ ShiftedOrDefault(out["y_range"], FitBounds[3], FitBounds[4], DEFAULT_Y_RANGE)

\* auto-fit shifted a padded x range that stuck out of the default range and was
\* narrower than it
C23_Witness ==
    /\ AutoFitted /\ WorldCall
    /\ SticksOut(FitBounds[1], FitBounds[2], DEFAULT_X_RANGE)
    /\ PaddedSpan(FitBounds[1], FitBounds[2], DEFAULT_X_RANGE) < DEFAULT_X_RANGE[2] - DEFAULT_X_RANGE[1]
    /\ out["x_range"] # DEFAULT_X_RANGE

\* auto-fit replaced a padded range at least as wide as the default range
C23_WitnessWide ==
    /\ AutoFitted /\ WorldCall
    /\ PaddedSpan(FitBounds[1], FitBounds[2], DEFAULT_X_RANGE) >= DEFAULT_X_RANGE[2] - DEFAULT_X_RANGE[1]

(* Groups that snap *)
\* snapping moved the block of the group pre[i]
GroupMoved(i) == TypeOf(pre[i]) = "group" /\ MovedBySnap(i)
\* the move of the block of child i
SnapDelta(i) ==
    <<BodyOf(kids[i])["pos"][1] - BodyOf(pre[i])["pos"][1],
      BodyOf(kids[i])["pos"][2] - BodyOf(pre[i])["pos"][2]>>
\* every coordinate field of the node before is moved by d in the node after
MovedBy(before, after, d) ==
    /\ \A k \in {kk \in PointKeys \cap DOMAIN before : NumPair(before[kk])} :
          Has(after, k) /\ after[k] = <<before[k][1] + d[1], before[k][2] + d[2]>>
    /\ Has(before, "points") =>
          \A n \in {nn \in 1..Len(before["points"]) : NumPair(before["points"][nn])} :
              after["points"][n] = <<before["points"][n][1] + d[1], before["points"][n][2] + d[2]>>

\* C24: when a group with a block child is snapped, each coordinate field of every
\* child of the group is translated by the delta of the block.
C24_GroupRidesAlong ==
    SnapDone =>
        \A i \in 1..Len(pre) :
            GroupMoved(i) =>
                \A j \in 1..Len(pre[i]["children"]) :
                    MovedBy(pre[i]["children"][j], kids[i]["children"][j], SnapDelta(i))

(* The nearest plane *)
PlaneFound == pc = "found" /\ pre # <<>>
\* the point <<x, y>> lies on the segment of the plane pl, between its start and
\* its end, up to the rounding of the grid
OnSegment(x, y, pl) ==
    /\ Min2(pl[1], pl[3]) <= x /\ x <= Max2(pl[1], pl[3])
    /\ Min2(pl[2], pl[4]) <= y /\ y <= Max2(pl[2], pl[4])
    /\ Abs((x - pl[1]) * pl[6] - (y - pl[2]) * pl[5]) <= pl[7]
\* the foot of the perpendicular from the position lies beyond an end of plane pl
BeyondEnd(pl) ==
    LET t == (arg0[1] - pl[1]) * pl[5] + (arg0[2] - pl[2]) * pl[6]
    IN t < 0 \/ t > pl[7] * pl[7]

\* C25: for a body position and a non-empty list of planes the nearest-plane step
\* returns a plane whose absolute perpendicular distance to the body is the
\* smallest of all planes, and the projection it returns lies on the segment of
\* that plane, between its start and its end.
C25_NearestPlaneOnSegment ==
    PlaneFound =>
        /\ \A n \in 1..Len(pre) : out[1] <= project_on_plane(arg0[1], arg0[2], pre[n])[1]
        /\ \E n \in 1..Len(pre) :
              /\ out = project_on_plane(arg0[1], arg0[2], pre[n])
              /\ OnSegment(out[2], out[3], pre[n])

\* two planes at different distances, the second the nearer and returned, the
\* foot of the perpendicular beyond its end
C25_Witness ==
    /\ PlaneFound
    /\ Len(pre) = 2
    /\ out = project_on_plane(arg0[1], arg0[2], pre[2])
    /\ out[1] < project_on_plane(arg0[1], arg0[2], pre[1])[1]
    /\ BeyondEnd(pre[2])

(* The blocks of an objects-form spec *)
\* the number of nodes of kind block among the nodes
BlockCount(nodes) == Cardinality({i \in 1..Len(nodes) : TypeOf(nodes[i]) = "block"})

\* C26: compiling an objects-form spec keeps every block: n objects of type block
\* in the input give n block objects in the output tree, each directly or as the
\* shape inside a group.
C26_EveryBlockKept ==
    (Returned /\ ObjectsCall) =>
        BlockCount(flatten(out["children"])) = BlockCount(arg0["objects"])

(* The distance that lets a block snap *)
\* the square of the distance from the body of pre[i] to the nearest point of
\* the segment of its nearest plane, the clamped projection
EuclidSq(i) ==
    (BodyOf(pre[i])["pos"][1] - BestOf(i)[2]) * (BodyOf(pre[i])["pos"][1] - BestOf(i)[2])
    + (BodyOf(pre[i])["pos"][2] - BestOf(i)[3]) * (BodyOf(pre[i])["pos"][2] - BestOf(i)[3])
\* that distance is below 1.1 times the height of the body
WithinReach(i) ==
    LET height == to_float(BodyOf(pre[i]), "height", BLOCK_HEIGHT)
    IN EuclidSq(i) * SNAP_THRESHOLD[2] * SNAP_THRESHOLD[2]
           < height * height * SNAP_THRESHOLD[1] * SNAP_THRESHOLD[1]

\* C27: snapping moves a block only if its Euclidean distance to the nearest
\* point of the segment of the chosen plane is below 1.1 times its height; a block
\* beyond the end of a segment, farther than that from every point of it, keeps
\* its position.
C27_MovedOnlyWithinReach ==
    SnapDone => \A i \in 1..Len(pre) : MovedBySnap(i) => WithinReach(i)

(* The automatic unit scale *)
\* the scaling step computed the unit scale itself, under the default settings
AutoScaled ==
    /\ ScaleDone /\ ScaleApplied
    /\ ExplicitU = <<>>
    /\ ~Has(env.ds, "quantize")
    /\ collect_bounds(kids, init_bounds) # <<>>

\* C28: after automatic unit scaling the bounds of the scaled tree span, on each
\* axis, no more than the target viewport spans on that axis.
C28_AutoScaleFitsTarget ==
    AutoScaled =>
        /\ collect_bounds(kids, init_bounds)[2] - collect_bounds(kids, init_bounds)[1]
              <= env.target_x[2] - env.target_x[1]
        /\ collect_bounds(kids, init_bounds)[4] - collect_bounds(kids, init_bounds)[3]
              <= env.target_y[2] - env.target_y[1]

(* Square blocks *)
\* the number the field k of the node declares, dflt when it declares none
Declared(node, k, dflt) == IF Has(node, k) /\ node[k] # Bad THEN node[k] ELSE dflt
\* the larger of the declared width and height of a block
DeclaredSide(raw) == Max2(Declared(raw, "width", BLOCK_WIDTH), Declared(raw, "height", BLOCK_HEIGHT))
\* a circle that declares a radius and neither width nor height
BareCircle(raw) ==
    /\ TypeOf(raw) = "circle" /\ ~Has(raw, "width") /\ ~Has(raw, "height")
    /\ Declared(raw, "radius", Declared(raw, "r", BLOCK_WIDTH \div 2)) # Bad
\* the side of the block a raw node becomes: the diameter for such a circle
NormalSide(raw) ==
    IF BareCircle(raw) THEN 2 * Declared(raw, "radius", Declared(raw, "r", BLOCK_WIDTH \div 2))
    ELSE DeclaredSide(raw)
\* every block snapping received, top-level or directly inside a group, is a
\* square of the side that side(_) gives for the raw node it was made from
BlocksSquare(side(_)) ==
    LET square(raw, node) ==
            TypeOf(node) = "block" => node["width"] = side(raw) /\ node["height"] = side(raw)
    IN \A i \in 1..Len(pre) :
          /\ square(RawOf(i), pre[i])
          /\ (TypeOf(pre[i]) = "group" /\ Len(Get(RawOf(i), "children", <<>>)) = Len(pre[i]["children"])) =>
                \A j \in 1..Len(pre[i]["children"]) : square(RawOf(i)["children"][j], pre[i]["children"][j])
\* the blocks within 1.1 times the side h(i) of a plane rest at half that side
\* from it, and the other blocks that have a plane are left alone
SnapsBySide(h(_)) ==
    /\ \A i \in NearBlocks(h) : ShapeOf(i)["pos"] = RestingPos(i, h(i))
    /\ \A i \in 1..Len(pre) :
          (TypeOf(pre[i]) = "block" /\ BestOf(i) # <<>> /\ i \notin NearBlocks(h)) => kids[i] = pre[i]
DeclaredSideOf(i) == DeclaredSide(RawOf(i))
NormalSideOf(i) == NormalSide(RawOf(i))

\* C29 as stated: after normalization every block, circles reclassified by id
\* included, has width and height equal to the larger of its declared width and
\* height (0.8 and 0.5 when absent), and snapping uses that side as the height.
C29_DeclaredSquare ==
    SnapDone => BlocksSquare(DeclaredSide) /\ SnapsBySide(DeclaredSideOf)

\* C29 amended: after normalization every block has width and height equal to
\* the larger of its declared width and height (0.8 and 0.5 when absent), except
\* that a circle reclassified as a block that declares neither has the diameter,
\* twice its radius, as both; snapping uses that side as the height of the block
\* for the threshold and for the offset.
C29_BlocksSquared ==
    SnapDone => BlocksSquare(NormalSide) /\ SnapsBySide(NormalSideOf)

\* a circle reclassified as a block came out of normalization as a square of its
\* diameter and was snapped at half the diameter from the plane
C29_Witness ==
    /\ SnapDone
    /\ \E i \in NearBlocks(NormalSideOf) :
          /\ BareCircle(RawOf(i))
          /\ pre[i]["width"] = 2 * RawOf(i)["radius"]
          /\ ShapeOf(i)["pos"] = RestingPos(i, 2 * RawOf(i)["radius"])
          /\ ShapeOf(i)["pos"] # pre[i]["pos"]

(* Anchors under repeated compilation *)
\* the latest snapping pass snapped the group kids[i], which has an id
SnappedGroup(i) ==
    /\ TypeOf(pre[i]) = "group" /\ IdOf(pre[i]) # ""
    /\ BodyOf(pre[i]) # Empty
    /\ ~(Get(pre[i], "snap_disable", FALSE) = TRUE \/ Get(BodyOf(pre[i]), "snap_disable", FALSE) = TRUE)
    /\ BestOf(i) # <<>>
    /\ ~too_far(BestOf(i)[1], Declared(BodyOf(pre[i]), "height", BLOCK_HEIGHT))
\* the children of the group that carry the id of its anchor
AnchorsOf(group) ==
    {j \in 1..Len(group["children"]) : IdOf(group["children"][j]) = IdOf(group) \o "_anchor"}

\* C30: after any number of compilations a snapped group with id X has exactly
\* one child with id X_anchor, at the projection point of the latest snap; no
\* second anchor is appended and the group is not wrapped in another group.
C30_OneAnchorPerGroup ==
    SnapDone =>
        /\ Len(kids) = Len(pre)
        /\ \A i \in 1..Len(pre) :
              SnappedGroup(i) =>
                  /\ TypeOf(kids[i]) = "group" /\ IdOf(kids[i]) = IdOf(pre[i])
                  /\ Cardinality(AnchorsOf(kids[i])) = 1
                  /\ \A j \in AnchorsOf(kids[i]) :
                        kids[i]["children"][j]["pos"] = <<BestOf(i)[2], BestOf(i)[3]>>
                  /\ \A j \in 1..Len(kids[i]["children"]) : TypeOf(kids[i]["children"][j]) # "group"
                  /\ Len(kids[i]["children"]) = Len(pre[i]["children"]) + (1 - Cardinality(AnchorsOf(pre[i])))

\* a compile of an earlier result snapped a group that already had its anchor
C30_Witness ==
    /\ SnapDone /\ hist # <<>>
    /\ \E i \in 1..Len(pre) :
          /\ SnappedGroup(i)
          /\ Cardinality(AnchorsOf(pre[i])) = 1
          /\ Cardinality(AnchorsOf(kids[i])) = 1

====
